---- MODULE Spec2Model ----
(***************************************************************************)
(* OPER-8 reference implementation (ref_imp_ts): the CPU engine of         *)
(* src/ref_imp_ts/src/cpu.ts driven by a host that prepares a machine      *)
(* (createCPU, loadProgram, register/flag/PC pokes) and then calls step.   *)
(*                                                                         *)
(* A machine is a record with the fields of class CPU plus the host's      *)
(* inputBuffer and two logs (bytes handed to onCharOutput, fault codes     *)
(* raised).  Memory is the 64K Uint8Array, kept as the function of its     *)
(* non-zero bytes (a byte that is not in the domain is 0).                 *)
(***************************************************************************)
EXTENDS Integers, Sequences, FiniteSets, TLC

VARIABLES registers, memory, pc, flagZ, flagC, flagN, halted,
          hasIO, outLog, inputBuffer, faultLog, phase, hist, runFrame, hostJob

vars == <<registers, memory, pc, flagZ, flagC, flagN, halted,
          hasIO, outLog, inputBuffer, faultLog, phase, hist, runFrame, hostJob>>

\* Number of step calls the host makes on one machine.
MaxSteps == 4

Regs == 0..15
Byte == 0..255

\* The value JavaScript yields for a typed-array read outside 0..65535.
Undefined == -1

\* ToInt32 as applied by the bit operators (>>, &, |, <<): undefined -> 0.
ToInt32(v) == IF v = Undefined THEN 0 ELSE v

\* A store into a Uint8Array element: the value modulo 256, undefined -> 0.
ToUint8(v) == ToInt32(v) % 256

RECURSIVE BitOp(_, _, _, _)
\* Bitwise combination of two bytes, bit i upwards; op is "and", "or", "xor".
BitOp(op, a, b, i) ==
  IF i > 7 THEN 0
  ELSE LET x == (a \div (2 ^ i)) % 2
           y == (b \div (2 ^ i)) % 2
           z == CASE op = "and" -> x * y
                  [] op = "or"  -> IF x + y > 0 THEN 1 ELSE 0
                  [] OTHER      -> (x + y) % 2
       IN z * (2 ^ i) + BitOp(op, a, b, i + 1)

BitAnd(a, b) == BitOp("and", a, b, 0)
BitOr(a, b) == BitOp("or", a, b, 0)
BitXor(a, b) == BitOp("xor", a, b, 0)

\* memory[a]: a read outside the array is undefined.
MemRead(m, a) ==
  IF a \in 0..65535 THEN (IF a \in DOMAIN m THEN m[a] ELSE 0) ELSE Undefined

\* memory[a] = v: a write outside the array is dropped.
MemWrite(m, a, v) ==
  IF a \notin 0..65535 THEN m
  ELSE LET b == ToUint8(v)
           d == IF b = 0 THEN DOMAIN m \ {a} ELSE DOMAIN m \cup {a}
       IN [x \in d |-> IF x = a THEN b ELSE m[x]]

\* memory.set(image): every byte of image written at its address.
MemSet(m, image) ==
  LET all == DOMAIN m \cup DOMAIN image
      val(x) == IF x \in DOMAIN image THEN image[x] ELSE m[x]
  IN [x \in {y \in all : val(y) # 0} |-> val(x)]

\* registers[r] = v
RegWrite(rs, r, v) == [rs EXCEPT ![r] = ToUint8(v)]

\* (hi << 8) | lo for two bytes
Word(hi, lo) == ToInt32(hi) * 256 + ToInt32(lo)

\* (R14 << 8) | R15
StackPointer(s) == Word(s.registers[14], s.registers[15])

\* reset that forgets to clear halted
reset_KeepsHalted(s) ==
  [s EXCEPT !.registers = [r \in Regs |-> 0],
            !.memory = (254 :> 255) @@ (255 :> 254) @@ (65534 :> 255) @@ (65535 :> 255),
            !.pc = 512,
            !.flagZ = FALSE, !.flagC = FALSE, !.flagN = FALSE]

\* CPU.reset
reset(s) ==
  [s EXCEPT !.registers = [r \in Regs |-> 0],
            !.memory = (254 :> 255) @@ (255 :> 254) @@ (65534 :> 255) @@ (65535 :> 255),
            !.pc = 512,
            !.flagZ = FALSE, !.flagC = FALSE, !.flagN = FALSE,
            !.halted = FALSE]

\* CPU.loadProgram(data, address)
loadProgram(s, data, address) ==
  [s EXCEPT !.memory =
     MemSet(s.memory, [a \in address..(address + Len(data) - 1) |-> data[a - address + 1]])]

\* fault that reads the handler vector low byte first
fault_LittleEndianVector(s, code) ==
  LET r0 == RegWrite(s.registers, 0, code)
      m1 == MemWrite(s.memory, 252, (s.pc \div 256) % 256)
      m2 == MemWrite(m1, 253, s.pc % 256)
      handlerAddr == Word(MemRead(m2, 255), MemRead(m2, 254))
  IN [s EXCEPT !.registers = r0, !.memory = m2, !.pc = handlerAddr,
               !.faultLog = Append(s.faultLog, code)]

\* CPU.fault(code)
fault(s, code) ==
  LET r0 == RegWrite(s.registers, 0, code)
      m1 == MemWrite(s.memory, 252, (s.pc \div 256) % 256)
      m2 == MemWrite(m1, 253, s.pc % 256)
      handlerAddr == Word(MemRead(m2, 254), MemRead(m2, 255))
  IN [s EXCEPT !.registers = r0, !.memory = m2, !.pc = handlerAddr,
               !.faultLog = Append(s.faultLog, code)]

\* CPU.setFlags(value, carry)
setFlags(s, value, carry) ==
  [s EXCEPT !.flagZ = (value = 0), !.flagC = carry, !.flagN = (value >= 128)]

\* Z and N from a result, C left alone (the inline flag code of the ALU cases)
setZN(s, value) ==
  [s EXCEPT !.flagZ = (value = 0), !.flagN = (value >= 128)]

\* CPU.signExtend(value)
signExtend(value) == IF value >= 128 THEN value - 256 ELSE value

\* this.pc += 2 (not masked)
Advance(s) == [s EXCEPT !.pc = s.pc + 2]

\* this.pc = (this.pc + 2 + signExtend(imm)) & 0xFFFF
RelJump(s, imm) == [s EXCEPT !.pc = (s.pc + 2 + signExtend(imm)) % 65536]

\* case 0x00: NOP
execNOP(s) == Advance(s)

\* LDIn that sets Z and N from the loaded byte
execLDI_SetsFlags(s, n, imm) ==
  Advance(setZN([s EXCEPT !.registers = RegWrite(s.registers, n, imm)], ToUint8(imm)))

\* case 0x10..0x1F: LDIn
execLDI(s, n, imm) == Advance([s EXCEPT !.registers = RegWrite(s.registers, n, imm)])

\* case 0x20: MOV
execMOV(s, rx, ry) ==
  Advance([s EXCEPT !.registers = RegWrite(s.registers, rx, s.registers[ry])])

\* SWAP without the temporary: both registers end with the old R[ry]
execSWAP_NoTemp(s, rx, ry) ==
  LET r1 == RegWrite(s.registers, rx, s.registers[ry])
      r2 == RegWrite(r1, ry, r1[rx])
  IN Advance([s EXCEPT !.registers = r2])

\* case 0x21: SWAP
execSWAP(s, rx, ry) ==
  LET temp == s.registers[rx]
      r1 == RegWrite(s.registers, rx, s.registers[ry])
      r2 == RegWrite(r1, ry, temp)
  IN Advance([s EXCEPT !.registers = r2])

\* case 0x22: LOAD
execLOAD(s, rx, ry) ==
  LET addr == Word(s.registers[ry], s.registers[(ry + 1) % 16])
  IN Advance([s EXCEPT !.registers = RegWrite(s.registers, rx, MemRead(s.memory, addr))])

\* case 0x23: STOR
execSTOR(s, rx, ry) ==
  LET addr == Word(s.registers[ry], s.registers[(ry + 1) % 16])
  IN Advance([s EXCEPT !.memory = MemWrite(s.memory, addr, s.registers[rx])])

\* case 0x24: LOADZ
execLOADZ(s, imm) ==
  Advance([s EXCEPT !.registers = RegWrite(s.registers, 0, MemRead(s.memory, imm))])

\* case 0x25: STORZ
execSTORZ(s, imm) ==
  Advance([s EXCEPT !.memory = MemWrite(s.memory, imm, s.registers[0])])

\* case 0x30: ADD
execADD(s, rx, ry) ==
  LET result == s.registers[rx] + s.registers[ry]
      t == [s EXCEPT !.registers = RegWrite(s.registers, rx, result % 256)]
  IN Advance(setFlags(t, t.registers[rx], result > 255))

\* ADC that leaves the incoming carry out of the sum
execADC_NoCarry(s, rx, ry) ==
  LET result == s.registers[rx] + s.registers[ry]
      t == [s EXCEPT !.registers = RegWrite(s.registers, rx, result % 256)]
  IN Advance(setFlags(t, t.registers[rx], result > 255))

\* case 0x31: ADC
execADC(s, rx, ry) ==
  LET result == s.registers[rx] + s.registers[ry] + (IF s.flagC THEN 1 ELSE 0)
      t == [s EXCEPT !.registers = RegWrite(s.registers, rx, result % 256)]
  IN Advance(setFlags(t, t.registers[rx], result > 255))

\* case 0x32: SUB
execSUB(s, rx, ry) ==
  LET result == s.registers[rx] - s.registers[ry]
      c == s.registers[ry] > s.registers[rx]
      t == [s EXCEPT !.flagC = c, !.registers = RegWrite(s.registers, rx, result % 256)]
  IN Advance(setZN(t, t.registers[rx]))

\* SBC whose borrow out ignores the borrow in
execSBC_BorrowOut(s, rx, ry) ==
  LET cin == IF s.flagC THEN 1 ELSE 0
      result == s.registers[rx] - s.registers[ry] - cin
      c == s.registers[ry] > s.registers[rx]
      t == [s EXCEPT !.flagC = c, !.registers = RegWrite(s.registers, rx, result % 256)]
  IN Advance(setZN(t, t.registers[rx]))

\* case 0x33: SBC
execSBC(s, rx, ry) ==
  LET cin == IF s.flagC THEN 1 ELSE 0
      result == s.registers[rx] - s.registers[ry] - cin
      c == (s.registers[ry] + cin) > s.registers[rx]
      t == [s EXCEPT !.flagC = c, !.registers = RegWrite(s.registers, rx, result % 256)]
  IN Advance(setZN(t, t.registers[rx]))

\* case 0x34: INC
execINC(s, rx) ==
  LET result == s.registers[rx] + 1
      t == [s EXCEPT !.registers = RegWrite(s.registers, rx, result % 256)]
  IN Advance(setFlags(t, t.registers[rx], result > 255))

\* case 0x35: DEC
execDEC(s, rx) ==
  LET result == s.registers[rx] - 1
      t == [s EXCEPT !.flagC = (result < 0),
                     !.registers = RegWrite(s.registers, rx, result % 256)]
  IN Advance(setZN(t, t.registers[rx]))

\* CMP that takes N from R[rx] instead of from the difference
execCMP_SignOfOperand(s, rx, ry) ==
  LET result == s.registers[rx] - s.registers[ry]
      t == [s EXCEPT !.flagC = s.registers[ry] > s.registers[rx]]
  IN Advance([t EXCEPT !.flagZ = (result % 256 = 0), !.flagN = (s.registers[rx] >= 128)])

\* case 0x36: CMP
execCMP(s, rx, ry) ==
  LET result == s.registers[rx] - s.registers[ry]
      t == [s EXCEPT !.flagC = s.registers[ry] > s.registers[rx]]
  IN Advance(setZN(t, result % 256))

\* MUL that takes N from bit 15 of the product
execMUL_SignOfProduct(s, rx, ry) ==
  LET result == s.registers[rx] * s.registers[ry]
      r1 == RegWrite(s.registers, rx, (result \div 256) % 256)
      r2 == RegWrite(r1, (rx + 1) % 16, result % 256)
  IN Advance([s EXCEPT !.registers = r2,
                       !.flagZ = (result = 0),
                       !.flagC = (result > 255),
                       !.flagN = (result >= 32768)])

\* case 0x37: MUL
execMUL(s, rx, ry) ==
  LET result == s.registers[rx] * s.registers[ry]
      r1 == RegWrite(s.registers, rx, (result \div 256) % 256)
      r2 == RegWrite(r1, (rx + 1) % 16, result % 256)
  IN Advance([s EXCEPT !.registers = r2,
                       !.flagZ = (result = 0),
                       !.flagC = (result > 255),
                       !.flagN = (r2[(rx + 1) % 16] >= 128)])

\* DIV that computes the remainder after it has stored the quotient
execDIV_RemainderAfterStore(s, rx, ry) ==
  IF s.registers[ry] = 0 THEN fault(s, 2)
  ELSE LET quotient == s.registers[rx] \div s.registers[ry]
           r1 == RegWrite(s.registers, rx, quotient)
           remainder == IF r1[ry] = 0 THEN 0 ELSE r1[rx] % r1[ry]
           r2 == RegWrite(r1, (rx + 1) % 16, remainder)
       IN Advance([s EXCEPT !.registers = r2,
                            !.flagZ = (quotient = 0),
                            !.flagC = FALSE,
                            !.flagN = (quotient >= 128)])

\* DIV that advances PC before it tests the divisor
execDIV_AdvanceFirst(s, rx, ry) ==
  LET a == Advance(s)
  IN IF s.registers[ry] = 0 THEN fault(a, 2)
     ELSE LET quotient == s.registers[rx] \div s.registers[ry]
              remainder == s.registers[rx] % s.registers[ry]
              r1 == RegWrite(s.registers, rx, quotient)
              r2 == RegWrite(r1, (rx + 1) % 16, remainder)
          IN [a EXCEPT !.registers = r2,
                       !.flagZ = (quotient = 0),
                       !.flagC = FALSE,
                       !.flagN = (quotient >= 128)]

\* case 0x38: DIV
execDIV(s, rx, ry) ==
  IF s.registers[ry] = 0 THEN fault(s, 2)
  ELSE LET quotient == s.registers[rx] \div s.registers[ry]
           remainder == s.registers[rx] % s.registers[ry]
           r1 == RegWrite(s.registers, rx, quotient)
           r2 == RegWrite(r1, (rx + 1) % 16, remainder)
       IN Advance([s EXCEPT !.registers = r2,
                            !.flagZ = (quotient = 0),
                            !.flagC = FALSE,
                            !.flagN = (quotient >= 128)])

\* The flag code shared by AND, OR, XOR, NOT: Z and N from R[rx], C cleared
logicFlags(s, rx) ==
  [s EXCEPT !.flagZ = (s.registers[rx] = 0), !.flagC = FALSE,
            !.flagN = (s.registers[rx] >= 128)]

\* case 0x40: AND
execAND(s, rx, ry) ==
  LET t == [s EXCEPT !.registers =
              RegWrite(s.registers, rx, BitAnd(s.registers[rx], s.registers[ry]))]
  IN Advance(logicFlags(t, rx))

\* case 0x41: OR
execOR(s, rx, ry) ==
  LET t == [s EXCEPT !.registers =
              RegWrite(s.registers, rx, BitOr(s.registers[rx], s.registers[ry]))]
  IN Advance(logicFlags(t, rx))

\* case 0x42: XOR
execXOR(s, rx, ry) ==
  LET t == [s EXCEPT !.registers =
              RegWrite(s.registers, rx, BitXor(s.registers[rx], s.registers[ry]))]
  IN Advance(logicFlags(t, rx))

\* case 0x43: NOT
execNOT(s, rx) ==
  LET t == [s EXCEPT !.registers = RegWrite(s.registers, rx, 255 - s.registers[rx])]
  IN Advance(logicFlags(t, rx))

\* case 0x44: SHL
execSHL(s, rx) ==
  LET bit7 == s.registers[rx] >= 128
      v == (s.registers[rx] * 2 + (IF s.flagC THEN 1 ELSE 0)) % 256
      t == [s EXCEPT !.registers = RegWrite(s.registers, rx, v), !.flagC = bit7]
  IN Advance(setZN(t, t.registers[rx]))

\* SHR that shifts in 0 instead of the carry
execSHR_Logical(s, rx) ==
  LET bit0 == s.registers[rx] % 2 = 1
      v == s.registers[rx] \div 2
      t == [s EXCEPT !.registers = RegWrite(s.registers, rx, v), !.flagC = bit0]
  IN Advance(setZN(t, t.registers[rx]))

\* case 0x45: SHR
execSHR(s, rx) ==
  LET bit0 == s.registers[rx] % 2 = 1
      v == (s.registers[rx] \div 2) + (IF s.flagC THEN 128 ELSE 0)
      t == [s EXCEPT !.registers = RegWrite(s.registers, rx, v), !.flagC = bit0]
  IN Advance(setZN(t, t.registers[rx]))

\* TEST that clears C as AND does
execTEST_ClearsC(s, rx, ry) ==
  Advance(setFlags(s, BitAnd(s.registers[rx], s.registers[ry]), FALSE))

\* case 0x46: TEST
execTEST(s, rx, ry) ==
  Advance(setZN(s, BitAnd(s.registers[rx], s.registers[ry])))

\* case 0x50: JMP
execJMP(s, imm) == RelJump(s, imm)

\* case 0x51: JMPL
execJMPL(s, rx, ry) == [s EXCEPT !.pc = Word(s.registers[rx], s.registers[ry])]

\* case 0x52..0x56: JZ, JNZ, JC, JNC, JN with the flag test already made
execJcond(s, taken, imm) == IF taken THEN RelJump(s, imm) ELSE Advance(s)

\* The push of the return address shared by CALL and CALLL
pushReturn(s) ==
  LET returnAddr == (s.pc + 2) % 65536
      sp == StackPointer(s)
      newSp == (sp - 2) % 65536
      m1 == MemWrite(s.memory, newSp, (returnAddr \div 256) % 256)
      m2 == MemWrite(m1, newSp + 1, returnAddr % 256)
      r1 == RegWrite(s.registers, 14, (newSp \div 256) % 256)
      r2 == RegWrite(r1, 15, newSp % 256)
  IN [s EXCEPT !.memory = m2, !.registers = r2]

\* case 0x57: CALL
execCALL(s, imm) ==
  LET t == pushReturn(s) IN [t EXCEPT !.pc = (s.pc + 2 + signExtend(imm)) % 65536]

\* case 0x58: CALLL
execCALLL(s, rx, ry) ==
  LET t == pushReturn(s) IN [t EXCEPT !.pc = Word(t.registers[rx], t.registers[ry])]

\* case 0x59: RET
execRET(s) ==
  LET sp == StackPointer(s)
      returnAddr == Word(MemRead(s.memory, sp), MemRead(s.memory, sp + 1))
      newSp == (sp + 2) % 65536
      r1 == RegWrite(s.registers, 14, (newSp \div 256) % 256)
      r2 == RegWrite(r1, 15, newSp % 256)
  IN [s EXCEPT !.registers = r2, !.pc = returnAddr]

RECURSIVE pushLoop(_, _, _, _, _)
\* The do-while of PUSH from register r on: <<memory, sp>> when it breaks
pushLoop(rs, m, sp, r, ry) ==
  LET sp1 == (sp - 1) % 65536
      m1 == MemWrite(m, sp1, rs[r])
  IN IF r = ry THEN <<m1, sp1>> ELSE pushLoop(rs, m1, sp1, (r + 1) % 16, ry)

RECURSIVE pushLoop_PostDecrement(_, _, _, _, _)
\* The do-while of a PUSH that stores at sp and then decrements
pushLoop_PostDecrement(rs, m, sp, r, ry) ==
  LET m1 == MemWrite(m, sp, rs[r])
      sp1 == (sp - 1) % 65536
  IN IF r = ry THEN <<m1, sp1>> ELSE pushLoop_PostDecrement(rs, m1, sp1, (r + 1) % 16, ry)

\* PUSH with post-decrement
execPUSH_PostDecrement(s, rx, ry) ==
  LET res == pushLoop_PostDecrement(s.registers, s.memory, StackPointer(s), rx, ry)
      sp == res[2]
      r1 == RegWrite(s.registers, 14, (sp \div 256) % 256)
      r2 == RegWrite(r1, 15, sp % 256)
  IN Advance([s EXCEPT !.memory = res[1], !.registers = r2])

\* case 0x60: PUSH
execPUSH(s, rx, ry) ==
  LET res == pushLoop(s.registers, s.memory, StackPointer(s), rx, ry)
      sp == res[2]
      r1 == RegWrite(s.registers, 14, (sp \div 256) % 256)
      r2 == RegWrite(r1, 15, sp % 256)
  IN Advance([s EXCEPT !.memory = res[1], !.registers = r2])

RECURSIVE popLoop(_, _, _, _, _)
\* The do-while of POP from register r on: <<registers, sp>> when it breaks
popLoop(m, rs, sp, r, ry) ==
  LET rs1 == RegWrite(rs, r, MemRead(m, sp))
      sp1 == (sp + 1) % 65536
  IN IF r = ry THEN <<rs1, sp1>> ELSE popLoop(m, rs1, sp1, (r + 1) % 16, ry)

\* POP that takes the final stack pointer from the registers it has just loaded
execPOP_SpFromRegisters(s, rx, ry) ==
  LET res == popLoop(s.memory, s.registers, StackPointer(s), rx, ry)
      sp == (Word(res[1][14], res[1][15]) + ((ry - rx) % 16) + 1) % 65536
      r1 == RegWrite(res[1], 14, (sp \div 256) % 256)
      r2 == RegWrite(r1, 15, sp % 256)
  IN Advance([s EXCEPT !.registers = r2])

\* case 0x61: POP
execPOP(s, rx, ry) ==
  LET res == popLoop(s.memory, s.registers, StackPointer(s), rx, ry)
      sp == res[2]
      r1 == RegWrite(res[1], 14, (sp \div 256) % 256)
      r2 == RegWrite(r1, 15, sp % 256)
  IN Advance([s EXCEPT !.registers = r2])

\* case 0x70: PRINT
execPRINT(s, rx) ==
  Advance(IF s.hasIO THEN [s EXCEPT !.outLog = Append(s.outLog, s.registers[rx])] ELSE s)

\* cpu.onCharInput of createCPU: inputBuffer.shift() || 0
onCharInput(buf) == IF Len(buf) = 0 THEN 0 ELSE Head(buf)

\* INPUT that clears C as the arithmetic instructions do
execINPUT_ClearsC(s, rx) ==
  LET t == IF s.hasIO
           THEN [s EXCEPT !.registers = RegWrite(s.registers, rx, onCharInput(s.inputBuffer)),
                          !.inputBuffer = IF Len(s.inputBuffer) = 0 THEN <<>>
                                          ELSE Tail(s.inputBuffer)]
           ELSE [s EXCEPT !.registers = RegWrite(s.registers, rx, 0)]
  IN Advance(setFlags(t, t.registers[rx], FALSE))

\* INPUT whose callback reads the head of inputBuffer and leaves it there
execINPUT_KeepsHead(s, rx) ==
  LET t == IF s.hasIO
           THEN [s EXCEPT !.registers = RegWrite(s.registers, rx, onCharInput(s.inputBuffer))]
           ELSE [s EXCEPT !.registers = RegWrite(s.registers, rx, 0)]
  IN Advance(setZN(t, t.registers[rx]))

\* case 0x71: INPUT
execINPUT(s, rx) ==
  LET t == IF s.hasIO
           THEN [s EXCEPT !.registers = RegWrite(s.registers, rx, onCharInput(s.inputBuffer)),
                          !.inputBuffer = IF Len(s.inputBuffer) = 0 THEN <<>>
                                          ELSE Tail(s.inputBuffer)]
           ELSE [s EXCEPT !.registers = RegWrite(s.registers, rx, 0)]
  IN Advance(setZN(t, t.registers[rx]))

\* HLT that advances PC like every other instruction
execHLT_Advances(s) == Advance([s EXCEPT !.halted = TRUE])

\* case 0xFF: HLT
execHLT(s) == [s EXCEPT !.halted = TRUE]

\* The switch of CPU.execute over the opcode
dispatch(s, opcode, rx, ry, imm) ==
     CASE opcode = 0 -> execNOP(s)
       [] opcode \in 16..31 -> execLDI(s, opcode - 16, imm)
       [] opcode = 32 -> execMOV(s, rx, ry)
       [] opcode = 33 -> execSWAP(s, rx, ry)
       [] opcode = 34 -> execLOAD(s, rx, ry)
       [] opcode = 35 -> execSTOR(s, rx, ry)
       [] opcode = 36 -> execLOADZ(s, imm)
       [] opcode = 37 -> execSTORZ(s, imm)
       [] opcode = 48 -> execADD(s, rx, ry)
       [] opcode = 49 -> execADC(s, rx, ry)
       [] opcode = 50 -> execSUB(s, rx, ry)
       [] opcode = 51 -> execSBC(s, rx, ry)
       [] opcode = 52 -> execINC(s, rx)
       [] opcode = 53 -> execDEC(s, rx)
       [] opcode = 54 -> execCMP(s, rx, ry)
       [] opcode = 55 -> execMUL(s, rx, ry)
       [] opcode = 56 -> execDIV(s, rx, ry)
       [] opcode = 64 -> execAND(s, rx, ry)
       [] opcode = 65 -> execOR(s, rx, ry)
       [] opcode = 66 -> execXOR(s, rx, ry)
       [] opcode = 67 -> execNOT(s, rx)
       [] opcode = 68 -> execSHL(s, rx)
       [] opcode = 69 -> execSHR(s, rx)
       [] opcode = 70 -> execTEST(s, rx, ry)
       [] opcode = 80 -> execJMP(s, imm)
       [] opcode = 81 -> execJMPL(s, rx, ry)
       [] opcode = 82 -> execJcond(s, s.flagZ, imm)
       [] opcode = 83 -> execJcond(s, ~s.flagZ, imm)
       [] opcode = 84 -> execJcond(s, s.flagC, imm)
       [] opcode = 85 -> execJcond(s, ~s.flagC, imm)
       [] opcode = 86 -> execJcond(s, s.flagN, imm)
       [] opcode = 87 -> execCALL(s, imm)
       [] opcode = 88 -> execCALLL(s, rx, ry)
       [] opcode = 89 -> execRET(s)
       [] opcode = 96 -> execPUSH(s, rx, ry)
       [] opcode = 97 -> execPOP(s, rx, ry)
       [] opcode = 112 -> execPRINT(s, rx)
       [] opcode = 113 -> execINPUT(s, rx)
       [] opcode = 255 -> execHLT(s)
       [] OTHER -> fault(s, 1)

\* execute whose switch has lost the TEST case and gained a case for byte 0x01
execute_WrongTable(s, opcode, operand) ==
  LET rx == (ToInt32(operand) \div 16) % 16
      ry == ToInt32(operand) % 16
      imm == operand
  IN IF opcode = 70 THEN fault(s, 1)
     ELSE IF opcode = 1 THEN execNOP(s)
     ELSE dispatch(s, opcode, rx, ry, imm)

\* CPU.execute(opcode, operand): the register fields of the operand, then the switch
execute(s, opcode, operand) ==
  LET rx == (ToInt32(operand) \div 16) % 16
      ry == ToInt32(operand) % 16
      imm == operand
  IN dispatch(s, opcode, rx, ry, imm)

\* step that treats a halted machine as parked on a NOP
step_HaltedAdvances(s) ==
  IF s.halted THEN Advance(s)
  ELSE IF s.pc % 2 # 0 THEN fault(s, 3)
  ELSE execute(s, MemRead(s.memory, s.pc), MemRead(s.memory, s.pc + 1))

\* step without the alignment test
step_NoAlignmentCheck(s) ==
  IF s.halted THEN s
  ELSE execute(s, MemRead(s.memory, s.pc), MemRead(s.memory, s.pc + 1))

\* CPU.step: the machine after the call
step(s) ==
  IF s.halted THEN s
  ELSE IF s.pc % 2 # 0 THEN fault(s, 3)
  ELSE execute(s, MemRead(s.memory, s.pc), MemRead(s.memory, s.pc + 1))

\* The value CPU.step returns
stepResult(s) == IF s.halted THEN FALSE ELSE ~step(s).halted

\* A while test that lets the loop run once more: steps <= maxSteps
runTest_Inclusive(steps, maxSteps) == steps <= maxSteps

\* CPU.run, the first operand of its while test: steps < maxSteps
runTest(steps, maxSteps) == steps < maxSteps

\* CPU.run, the loop body: steps++ when the test's step() returned true
runCount(steps, ok) == IF ok THEN steps + 1 ELSE steps

\* The activation of CPU.run: its argument, its local steps, the number of step
\* calls it has made, how many runs the host has started, the machine at entry
NoRun == [maxSteps |-> 0, steps |-> 0, calls |-> 0, runs |-> 0, start |-> <<>>]

(***************************************************************************)
(* The assembler.  A token is a sequence of one-character strings; an      *)
(* instruction is its mnemonic and the operand tokens that                 *)
(* split(/[\s,]+/) yields.  A function that can throw returns a record     *)
(* with ok = FALSE and the error thrown.                                   *)
(***************************************************************************)
\* The value parseInt gives when no digit can be read
NaN == -1000000000
isNaN(v) == v = NaN

\* class AssemblerError: a name and a message
AssemblerError(message) == [name |-> "AssemblerError", message |-> message]
Throw(message) == [ok |-> FALSE, error |-> AssemblerError(message)]

\* String.toUpperCase and toLowerCase, one character and a whole token
UpperChar(c) ==
  CASE c = "a" -> "A" [] c = "b" -> "B" [] c = "c" -> "C" [] c = "d" -> "D"
    [] c = "e" -> "E" [] c = "f" -> "F" [] c = "g" -> "G" [] c = "h" -> "H"
    [] c = "i" -> "I" [] c = "j" -> "J" [] c = "k" -> "K" [] c = "l" -> "L"
    [] c = "m" -> "M" [] c = "n" -> "N" [] c = "o" -> "O" [] c = "p" -> "P"
    [] c = "q" -> "Q" [] c = "r" -> "R" [] c = "s" -> "S" [] c = "t" -> "T"
    [] c = "u" -> "U" [] c = "v" -> "V" [] c = "w" -> "W" [] c = "x" -> "X"
    [] c = "y" -> "Y" [] c = "z" -> "Z" [] OTHER -> c
LowerChar(c) ==
  CASE c = "A" -> "a" [] c = "B" -> "b" [] c = "C" -> "c" [] c = "D" -> "d"
    [] c = "E" -> "e" [] c = "F" -> "f" [] c = "G" -> "g" [] c = "H" -> "h"
    [] c = "I" -> "i" [] c = "J" -> "j" [] c = "K" -> "k" [] c = "L" -> "l"
    [] c = "M" -> "m" [] c = "N" -> "n" [] c = "O" -> "o" [] c = "P" -> "p"
    [] c = "Q" -> "q" [] c = "R" -> "r" [] c = "S" -> "s" [] c = "T" -> "t"
    [] c = "U" -> "u" [] c = "V" -> "v" [] c = "W" -> "w" [] c = "X" -> "x"
    [] c = "Y" -> "y" [] c = "Z" -> "z" [] OTHER -> c
toUpperCase(s) == [i \in 1..Len(s) |-> UpperChar(s[i])]

UpperLetters == {"A", "B", "C", "D", "E", "F", "G", "H", "I", "J", "K", "L", "M",
                 "N", "O", "P", "Q", "R", "S", "T", "U", "V", "W", "X", "Y", "Z"}
DigitChars == {"0", "1", "2", "3", "4", "5", "6", "7", "8", "9"}

RECURSIVE Str(_)
\* The characters of a token joined into one string
Str(cs) == IF cs = <<>> THEN "" ELSE cs[1] \o Str(Tail(cs))

\* The value of a digit character in radix up to 16, 99 for any other character
DigitVal(c) ==
  CASE c = "0" -> 0 [] c = "1" -> 1 [] c = "2" -> 2 [] c = "3" -> 3 [] c = "4" -> 4
    [] c = "5" -> 5 [] c = "6" -> 6 [] c = "7" -> 7 [] c = "8" -> 8 [] c = "9" -> 9
    [] c \in {"A", "a"} -> 10 [] c \in {"B", "b"} -> 11 [] c \in {"C", "c"} -> 12
    [] c \in {"D", "d"} -> 13 [] c \in {"E", "e"} -> 14 [] c \in {"F", "f"} -> 15
    [] OTHER -> 99

\* String.charCodeAt for the characters of the sources
CharCode(c) ==
  CASE c = "a" -> 97 [] c = "b" -> 98 [] c = "c" -> 99 [] c = "n" -> 110
    [] c = "A" -> 65 [] c = "B" -> 66 [] c = "C" -> 67 [] c = "N" -> 78
    [] c = "0" -> 48 [] c = "1" -> 49 [] c = " " -> 32 [] c = "!" -> 33
    [] c = "'" -> 39 [] c = "\\" -> 92
    [] c = "T" -> 84 [] c = "y" -> 121 [] c = "p" -> 112 [] c = "e" -> 101
    [] c = "s" -> 115 [] c = "o" -> 111 [] c = "m" -> 109 [] c = "t" -> 116
    [] c = "h" -> 104 [] c = "i" -> 105 [] c = "g" -> 103 [] c = ":" -> 58
    [] OTHER -> 63

RECURSIVE parseDigits(_, _, _)
\* The number the longest prefix of digits of s spells in the radix, NaN when s
\* starts with no digit
parseDigits(s, radix, acc) ==
  LET d == IF s = <<>> THEN 99 ELSE DigitVal(s[1])
  IN IF d >= radix THEN acc
     ELSE parseDigits(Tail(s), radix, (IF acc = NaN THEN 0 ELSE acc * radix) + d)

\* parseInt(s, radix): a sign, "0x" when the radix is 16, then digits
parseInt(s, radix) ==
  LET neg == s # <<>> /\ s[1] = "-"
      t1 == IF s # <<>> /\ s[1] \in {"-", "+"} THEN Tail(s) ELSE s
      t2 == IF radix = 16 /\ Len(t1) >= 2 /\ t1[1] = "0" /\ t1[2] \in {"x", "X"}
              THEN SubSeq(t1, 3, Len(t1)) ELSE t1
  IN IF parseDigits(t2, radix, NaN) = NaN THEN NaN
     ELSE (IF neg THEN -1 ELSE 1) * parseDigits(t2, radix, NaN)

\* parseInt(s): radix 16 after "0x", else 10
parseIntAuto(s) ==
  LET t1 == IF s # <<>> /\ s[1] \in {"-", "+"} THEN Tail(s) ELSE s
  IN parseInt(s, IF Len(t1) >= 2 /\ t1[1] = "0" /\ t1[2] \in {"x", "X"} THEN 16 ELSE 10)

StartsWith(s, prefix) ==
  Len(s) >= Len(prefix) /\ SubSeq(s, 1, Len(prefix)) = prefix

\* n.toString(16).toUpperCase() for n >= 0
RECURSIVE ToHexChars(_)
ToHexChars(n) ==
  LET d == <<"0", "1", "2", "3", "4", "5", "6", "7", "8", "9",
             "A", "B", "C", "D", "E", "F">>[(n % 16) + 1]
  IN IF n < 16 THEN <<d>> ELSE ToHexChars(n \div 16) \o <<d>>

\* n.toString() of an integer
RECURSIVE ToDecChars(_)
ToDecChars(n) ==
  IF n < 0 THEN <<"-">> \o ToDecChars(0 - n)
  ELSE LET d == <<"0", "1", "2", "3", "4", "5", "6", "7", "8", "9">>[(n % 10) + 1]
       IN IF n < 10 THEN <<d>> ELSE ToDecChars(n \div 10) \o <<d>>

RECURSIVE padStart(_, _)
\* s.padStart(w, '0')
padStart(s, w) == IF Len(s) >= w THEN s ELSE padStart(<<"0">> \o s, w)

\* toHex(n, w) of the assembler and the host
toHex(n, w) == padStart(ToHexChars(n), w)

\* parseRegister
parseRegister(token) ==
  LET s == toUpperCase(token)
      num == parseIntAuto(Tail(s))
  IN IF s = <<>> \/ s[1] # "R" THEN Throw("Invalid register")
     ELSE IF isNaN(num) \/ num < 0 \/ num > 15 THEN Throw("Invalid register number")
     ELSE [ok |-> TRUE, value |-> num]

\* What parseImmediate returns: a number, or an array of bytes
Number(v) == [ok |-> TRUE, isArray |-> FALSE, value |-> v, bytes |-> <<>>]
Array(b) == [ok |-> TRUE, isArray |-> TRUE, value |-> 0, bytes |-> b]

RECURSIVE charLoop(_, _)
\* parseImmediate, the loop over the content of a character literal
charLoop(content, chars) ==
  IF content = <<>> THEN Array(chars)
  ELSE IF content[1] = "\\" /\ Len(content) > 1
    THEN LET nextChar == LowerChar(content[2])
             rest == SubSeq(content, 3, Len(content))
         IN CASE nextChar = "0" -> charLoop(rest, Append(chars, 0))
              [] nextChar = "n" -> charLoop(rest, Append(chars, 10))
              [] nextChar = "r" -> charLoop(rest, Append(chars, 13))
              [] nextChar = "t" -> charLoop(rest, Append(chars, 9))
              [] nextChar = "\\" -> charLoop(rest, Append(chars, 92))
              [] nextChar = "'" -> charLoop(rest, Append(chars, 39))
              [] OTHER -> Throw("Invalid escape sequence")
  ELSE charLoop(Tail(content), Append(chars, CharCode(content[1])))

RECURSIVE bigEndianBytes(_, _)
\* parseImmediate, the while loop that splits a value above 255 into bytes
\* (v >>> 8 of a value below 2^31)
bigEndianBytes(v, bytes) ==
  IF v > 0 THEN bigEndianBytes(v \div 256, <<v % 256>> \o bytes)
  ELSE bytes

\* parseImmediate, after the value is parsed: NaN throws, and a value above
\* 255 becomes big-endian bytes where several bytes are allowed
numberOrBytes(value, allowMultiByte) ==
  IF isNaN(value) THEN Throw("Invalid immediate value")
  ELSE IF allowMultiByte /\ value > 255 THEN Array(bigEndianBytes(value, <<>>))
  ELSE Number(value)

\* parseImmediate, after the loop over a character literal
literal(chars, allowMultiByte) ==
  IF ~chars.ok THEN chars
  ELSE IF Len(chars.bytes) = 0 THEN Throw("Empty character literal")
  ELSE IF Len(chars.bytes) = 1 THEN Number(chars.bytes[1])
  ELSE IF allowMultiByte THEN chars
  ELSE Throw("Multi-character literal not allowed here")

\* parseImmediate(s, undefined, undefined, allowMultiByte): every caller leaves
\* labels undefined, so the label branches are not taken
parseImmediate(s, allowMultiByte) ==
  IF s # <<>> /\ s[1] = "'"
    THEN IF s[Len(s)] # "'" \/ Len(s) < 3 THEN Throw("Invalid character literal")
         ELSE literal(charLoop(SubSeq(s, 2, Len(s) - 1), <<>>), allowMultiByte)
  ELSE numberOrBytes(
         parseInt(IF s # <<>> /\ s[1] = "$" THEN Tail(s)
                  ELSE IF StartsWith(toUpperCase(s), <<"0", "X">>)
                            \/ StartsWith(toUpperCase(s), <<"0", "B">>)
                    THEN SubSeq(s, 3, Len(s))
                  ELSE s,
                  IF s # <<>> /\ s[1] = "$" THEN 16
                  ELSE IF StartsWith(toUpperCase(s), <<"0", "X">>) THEN 16
                  ELSE IF StartsWith(toUpperCase(s), <<"0", "B">>) THEN 2
                  ELSE 10),
         allowMultiByte)

\* assemble's switch: the opcode each case returns and the operands it parses
\* ("none": no operand is looked at; "imm": one immediate; "regs": rx, ry;
\* "reg": rx)
Case(opcode, shape, operand) == [opcode |-> opcode, shape |-> shape, operand |-> operand]
Jumps == {"JMP", "JZ", "JNZ", "JC", "JNC", "JN", "CALL"}
asmCommon ==
  ("NOP" :> Case(0, "none", 0)) @@
  ("ADD" :> Case(48, "regs", 0)) @@ ("ADC" :> Case(49, "regs", 0)) @@
  ("SUB" :> Case(50, "regs", 0)) @@ ("SBC" :> Case(51, "regs", 0)) @@
  ("INC" :> Case(52, "reg", 0)) @@ ("DEC" :> Case(53, "reg", 0)) @@
  ("CMP" :> Case(54, "regs", 0)) @@ ("MUL" :> Case(55, "regs", 0)) @@
  ("DIV" :> Case(56, "regs", 0)) @@
  ("AND" :> Case(64, "regs", 0)) @@ ("OR" :> Case(65, "regs", 0)) @@
  ("XOR" :> Case(66, "regs", 0)) @@ ("NOT" :> Case(67, "reg", 0)) @@
  ("SHL" :> Case(68, "reg", 0)) @@ ("SHR" :> Case(69, "reg", 0)) @@
  ("TEST" :> Case(70, "regs", 0)) @@
  ("JMP" :> Case(80, "imm", 0)) @@ ("JMPL" :> Case(81, "regs", 0)) @@
  ("JZ" :> Case(82, "imm", 0)) @@ ("JNZ" :> Case(83, "imm", 0)) @@
  ("JC" :> Case(84, "imm", 0)) @@ ("JNC" :> Case(85, "imm", 0)) @@
  ("JN" :> Case(86, "imm", 0)) @@ ("CALL" :> Case(87, "imm", 0)) @@
  ("CALLL" :> Case(88, "regs", 0)) @@ ("RET" :> Case(89, "none", 0)) @@
  ("PUSH" :> Case(96, "regs", 0)) @@ ("POP" :> Case(97, "regs", 0)) @@
  ("HLT" :> Case(255, "none", 255))

\* The cases of assemble in part_002
asmTable ==
  [mn \in {"LDI" \o Str(ToDecChars(n)) : n \in 0..15} |->
     Case(16 + (CHOOSE n \in 0..15 : mn = "LDI" \o Str(ToDecChars(n))), "imm", 0)] @@
  ("MOV" :> Case(32, "regs", 0)) @@ ("SWAP" :> Case(33, "regs", 0)) @@
  ("LOAD" :> Case(34, "regs", 0)) @@ ("STOR" :> Case(35, "regs", 0)) @@
  ("LOADZ" :> Case(36, "imm", 0)) @@ ("STORZ" :> Case(37, "imm", 0)) @@
  ("PRINT" :> Case(112, "reg", 0)) @@ ("INPUT" :> Case(113, "reg", 0)) @@
  asmCommon

\* The cases of assemble in assembler.ts ("regnib": rx and a 4-bit immediate;
\* "ldi16": rx, ry and a 16-bit immediate in two further bytes)
refAsmTable ==
  ("LDLO" :> Case(16, "regnib", 0)) @@ ("LDHI" :> Case(17, "regnib", 0)) @@
  ("LDI0" :> Case(18, "imm", 0)) @@ ("LDI16" :> Case(19, "ldi16", 0)) @@
  ("MOV" :> Case(20, "regs", 0)) @@ ("SWAP" :> Case(21, "regs", 0)) @@
  ("LOAD" :> Case(32, "regs", 0)) @@ ("STOR" :> Case(33, "regs", 0)) @@
  ("LOADZ" :> Case(34, "imm", 0)) @@ ("STORZ" :> Case(35, "imm", 0)) @@
  asmCommon

\* What assemble returns
Assembled(opcode, operand, length, immediate) ==
  [ok |-> TRUE, opcode |-> opcode, operand |-> operand, length |-> length,
   immediate |-> immediate]

\* parseImmediate of assembler.ts: "$" or "0X" hexadecimal, else decimal
refParseImmediate(token) ==
  numberOrBytes(
    parseInt(IF token # <<>> /\ token[1] = "$" THEN Tail(toUpperCase(token))
             ELSE IF StartsWith(toUpperCase(token), <<"0", "X">>)
               THEN SubSeq(toUpperCase(token), 3, Len(token))
             ELSE toUpperCase(token),
             IF (token # <<>> /\ token[1] = "$") \/ StartsWith(toUpperCase(token), <<"0", "X">>)
               THEN 16 ELSE 10),
    FALSE)

\* The operands a case parses, left to right
OperandKinds(shape) ==
  CASE shape = "imm" -> <<"imm">> [] shape = "reg" -> <<"reg">>
    [] shape = "regs" -> <<"reg", "reg">> [] shape = "regnib" -> <<"reg", "imm">>
    [] shape = "ldi16" -> <<"reg", "reg", "imm">> [] OTHER -> <<>>

\* The operand byte, and the immediate bytes, a case builds from its operands
encode(c, v) ==
  CASE c.shape = "imm" -> Assembled(c.opcode, v[1] % 256, 2, <<>>)
    [] c.shape = "reg" -> Assembled(c.opcode, v[1] * 16, 2, <<>>)
    [] c.shape = "regs" -> Assembled(c.opcode, v[1] * 16 + v[2], 2, <<>>)
    [] c.shape = "regnib" -> Assembled(c.opcode, v[1] * 16 + (v[2] % 16), 2, <<>>)
    [] OTHER -> Assembled(c.opcode, v[1] * 16 + v[2], 4, <<(v[3] \div 256) % 256, v[3] % 256>>)

\* The first operand that failed to parse throws; else the case returns
parsedCase(c, parsed) ==
  LET failed == {i \in 1..Len(parsed) : ~parsed[i].ok}
  IN IF failed # {} THEN parsed[CHOOSE i \in failed : \A j \in failed : i <= j]
     ELSE encode(c, [i \in 1..Len(parsed) |-> parsed[i].value])

\* The body of one case of assemble: operand count, operands parsed left to right
assembleCase(mnemonic, c, operands, imm(_)) ==
  IF c.shape = "none" THEN Assembled(c.opcode, c.operand, 2, <<>>)
  ELSE IF Len(operands) # Len(OperandKinds(c.shape))
    THEN Throw(mnemonic \o " requires operands")
  ELSE parsedCase(c, [i \in 1..Len(operands) |->
                        IF OperandKinds(c.shape)[i] = "reg" THEN parseRegister(operands[i])
                        ELSE imm(operands[i])])

\* An instruction text after toUpperCase and split(/[\s,]+/): the mnemonic, kept as
\* the upper-case string the switch compares, and the operand tokens
Instr(mn, ops) == [mn |-> mn, ops |-> ops]
Operands(instruction) ==
  [i \in 1..Len(instruction.ops) |-> toUpperCase(instruction.ops[i])]

byteImmediate(token) == parseImmediate(token, FALSE)

\* assemble of part_002
assemble(instruction) ==
  IF instruction.mn = "" THEN Throw("Empty instruction")
  ELSE IF instruction.mn \notin DOMAIN asmTable THEN Throw("Unknown mnemonic")
  ELSE assembleCase(instruction.mn, asmTable[instruction.mn],
                    Operands(instruction), byteImmediate)

\* assemble of assembler.ts
refAssemble(instruction) ==
  IF instruction.mn = "" THEN Throw("Empty instruction")
  ELSE IF instruction.mn \notin DOMAIN refAsmTable THEN Throw("Unknown mnemonic")
  ELSE assembleCase(instruction.mn, refAsmTable[instruction.mn],
                    Operands(instruction), refParseImmediate)

\* disassemble's switch: the mnemonic each case prints and how it prints the
\* operand ("hex": $HH; "dec": signed decimal; "regs": Rx, Ry; "reg": Rx)
Shown(mn, form) == [mn |-> mn, form |-> form]
disTable ==
  (0 :> Shown("NOP", "none")) @@
  [op \in 16..31 |-> Shown("LDI" \o Str(ToDecChars(op - 16)), "hex")] @@
  (32 :> Shown("MOV", "regs")) @@ (33 :> Shown("SWAP", "regs")) @@
  (34 :> Shown("LOAD", "regs")) @@ (35 :> Shown("STOR", "regs")) @@
  (36 :> Shown("LOADZ", "hex")) @@ (37 :> Shown("STORZ", "hex")) @@
  (48 :> Shown("ADD", "regs")) @@ (49 :> Shown("ADC", "regs")) @@
  (50 :> Shown("SUB", "regs")) @@ (51 :> Shown("SBC", "regs")) @@
  (52 :> Shown("INC", "reg")) @@ (53 :> Shown("DEC", "reg")) @@
  (54 :> Shown("CMP", "regs")) @@ (55 :> Shown("MUL", "regs")) @@
  (56 :> Shown("DIV", "regs")) @@
  (64 :> Shown("AND", "regs")) @@ (65 :> Shown("OR", "regs")) @@
  (66 :> Shown("XOR", "regs")) @@ (67 :> Shown("NOT", "reg")) @@
  (68 :> Shown("SHL", "reg")) @@ (69 :> Shown("SHR", "reg")) @@
  (70 :> Shown("TEST", "regs")) @@
  (80 :> Shown("JMP", "dec")) @@ (81 :> Shown("JMPL", "regs")) @@
  (82 :> Shown("JZ", "dec")) @@ (83 :> Shown("JNZ", "dec")) @@
  (84 :> Shown("JC", "dec")) @@ (85 :> Shown("JNC", "dec")) @@
  (86 :> Shown("JN", "dec")) @@ (87 :> Shown("CALL", "dec")) @@
  (88 :> Shown("CALLL", "regs")) @@ (89 :> Shown("RET", "none")) @@
  (96 :> Shown("PUSH", "regs")) @@ (97 :> Shown("POP", "regs")) @@
  (112 :> Shown("PRINT", "reg")) @@ (113 :> Shown("INPUT", "reg")) @@
  (255 :> Shown("HLT", "none"))

\* disassemble of part_002
disassemble(opcode, operand) ==
  LET rx == (operand \div 16) % 16
      ry == operand % 16
      imm == operand
      R(n) == "R" \o Str(ToDecChars(n))
      c == disTable[opcode]
  IN CASE opcode \notin DOMAIN disTable ->
            "??? [$" \o Str(toHex(opcode, 2)) \o " $" \o Str(toHex(operand, 2)) \o "]"
       [] c.form = "none" -> c.mn
       [] c.form = "hex" -> c.mn \o " $" \o Str(toHex(imm, 2))
       [] c.form = "dec" ->
            c.mn \o " " \o Str(ToDecChars(IF imm > 127 THEN imm - 256 ELSE imm))
       [] c.form = "reg" -> c.mn \o " " \o R(rx)
       [] OTHER -> c.mn \o " " \o R(rx) \o ", " \o R(ry)

\* /^[A-Z_][A-Z0-9_]*$/i
IsIdent(s) ==
  /\ s # <<>>
  /\ \A i \in 1..Len(s) :
       \/ toUpperCase(s)[i] \in UpperLetters \cup {"_"}
       \/ i > 1 /\ s[i] \in DigitChars

\* The label named in HIGH(label) or LOW(label), <<>> when the pattern
\* /^HIGH\s*\(\s*([A-Z_][A-Z0-9_]*)\s*\)/i does not match
CallArg(op, fn) ==
  LET open == Len(fn) + 1
      ends == {j \in (open + 1)..Len(op) : op[j] = ")"}
      close == CHOOSE j \in ends : \A k \in ends : j <= k
  IN IF StartsWith(op, fn \o <<"(">>) /\ ends # {}
          /\ IsIdent(SubSeq(op, open + 1, close - 1))
       THEN SubSeq(op, open + 1, close - 1) ELSE <<>>

\* "$" followed by n.toString(16).toUpperCase()
HexOperand(n) == <<"$">> \o ToHexChars(n)

\* assembleLine, the loop that resolves >label, <label, HIGH(label), LOW(label)
byteOperator(op, labels) ==
  LET name == Str(toUpperCase(Tail(op)))
      high == Str(toUpperCase(CallArg(op, <<"H", "I", "G", "H">>)))
      low == Str(toUpperCase(CallArg(op, <<"L", "O", "W">>)))
  IN CASE op # <<>> /\ op[1] = ">" ->
            IF name \in DOMAIN labels THEN HexOperand((labels[name] \div 256) % 256) ELSE op
       [] op # <<>> /\ op[1] = "<" ->
            IF name \in DOMAIN labels THEN HexOperand(labels[name] % 256) ELSE op
       [] StartsWith(op, <<"H", "I", "G", "H", "(">>) ->
            IF high \in DOMAIN labels THEN HexOperand((labels[high] \div 256) % 256) ELSE op
       [] StartsWith(op, <<"L", "O", "W", "(">>) ->
            IF low \in DOMAIN labels THEN HexOperand(labels[low] % 256) ELSE op
       [] OTHER -> op

\* assembleLine, once the offset to a label operand is known
resolveLine(instruction, labels, isLabel, offset) ==
  IF instruction.mn = "" THEN Throw("Empty instruction")
  ELSE IF isLabel /\ (offset < -128 \/ offset > 127) THEN Throw("Label out of range")
  ELSE assemble(Instr(instruction.mn,
                      [i \in 1..Len(instruction.ops) |->
                         IF isLabel THEN HexOperand(offset % 256)
                         ELSE byteOperator(Operands(instruction)[i], labels)]))

\* Whether the operand of a jump names a defined label
IsLabelOperand(instruction, labels) ==
  /\ instruction.mn \in Jumps
  /\ Len(instruction.ops) = 1
  /\ IsIdent(instruction.ops[1])
  /\ Str(toUpperCase(instruction.ops[1])) \in DOMAIN labels

\* assembleLine whose offset is taken from the jump's own address
assembleLine_FromCurrentAddr(instruction, labels, currentAddr) ==
  resolveLine(instruction, labels, IsLabelOperand(instruction, labels),
              IF IsLabelOperand(instruction, labels)
                THEN labels[Str(toUpperCase(instruction.ops[1]))] - currentAddr ELSE 0)

\* assembleLine
assembleLine(instruction, labels, currentAddr) ==
  resolveLine(instruction, labels, IsLabelOperand(instruction, labels),
              IF IsLabelOperand(instruction, labels)
                THEN labels[Str(toUpperCase(instruction.ops[1]))] - (currentAddr + 2) ELSE 0)

(***************************************************************************)
(* A source is a sequence of lines.  A line is what the first pass of      *)
(* assembleProgram takes it for after trimming and comment removal:        *)
(* nothing, ".org" with its arguments, ".data" with its values, a label    *)
(* definition, or an instruction.                                          *)
(***************************************************************************)
Blank == [kind |-> "blank"]
Org(args) == [kind |-> "org", args |-> args]
Data(parts) == [kind |-> "data", parts |-> parts]
Label(name) == [kind |-> "label", name |-> name]
Line(mn, ops) == [kind |-> "instr", mn |-> mn, ops |-> ops]

NoLabels == [name \in {} |-> 0]

RECURSIVE dataValues(_, _)

\* assembleProgram, the bytes one parsed .data value adds
dataValue(rest, dataBytes, value) ==
  IF ~value.ok THEN value
  ELSE dataValues(rest, dataBytes \o (IF value.isArray THEN value.bytes
                                      ELSE <<value.value % 256>>))

\* assembleProgram, the loop over the values of a .data line
dataValues(parts, dataBytes) ==
  IF parts = <<>> THEN Array(dataBytes)
  ELSE dataValue(Tail(parts), dataBytes, parseImmediate(parts[1], TRUE))

\* assembleProgram, what the first pass holds between two lines
Passing(addr, labels, items) ==
  [ok |-> TRUE, addr |-> addr, labels |-> labels, items |-> items]

\* assembleProgram, first pass, a .org line whose argument is parsed
orgLine(st, newAddr) ==
  IF ~newAddr.ok THEN newAddr ELSE [st EXCEPT !.addr = newAddr.value]

\* assembleProgram, first pass, a .data line whose values are parsed
dataLine(st, dataBytes) ==
  IF ~dataBytes.ok THEN dataBytes
  ELSE [st EXCEPT !.addr = @ + Len(dataBytes.bytes),
                  !.items = Append(@, [type |-> "data", data |-> dataBytes.bytes,
                                       addr |-> st.addr])]

\* assembleProgram, first pass, a label line
labelLine(st, label) ==
  IF label \in DOMAIN st.labels THEN Throw("Duplicate label")
  ELSE [st EXCEPT !.labels = (label :> st.addr) @@ @]

\* assembleProgram, first pass, the body of the loop over the lines
firstPassLine(st, line) ==
  CASE line.kind = "blank" -> st
    [] line.kind = "org" ->
         IF Len(line.args) # 1 THEN Throw(".org requires one argument: address")
         ELSE orgLine(st, parseImmediate(line.args[1], FALSE))
    [] line.kind = "data" ->
         IF line.parts = <<>> THEN Throw(".data requires at least one value")
         ELSE dataLine(st, dataValues(line.parts, <<>>))
    [] line.kind = "label" -> labelLine(st, Str(toUpperCase(line.name)))
    [] OTHER ->
         [st EXCEPT !.addr = @ + 2,
                    !.items = Append(@, [type |-> "instruction",
                                         line |-> Instr(line.mn, line.ops),
                                         addr |-> st.addr])]

\* The loop over the lines, in order; a line that threw ends it.  The lines
\* are taken half by half so that a long source does not nest deeply.
RECURSIVE passLines(_, _)
passLines(lines, st) ==
  IF ~st.ok \/ lines = <<>> THEN st
  ELSE IF Len(lines) = 1 THEN firstPassLine(st, lines[1])
  ELSE passLines(SubSeq(lines, Len(lines) \div 2 + 1, Len(lines)),
                 passLines(SubSeq(lines, 1, Len(lines) \div 2), st))

\* assembleProgram, first pass: labels, directives, the address of every item
firstPass(lines, addr, labels, items) == passLines(lines, Passing(addr, labels, items))

\* assembleProgram, second pass, given what assembleLine made of every item:
\* the first instruction that threw ends the pass
collect(items, assembled) ==
  LET failed == {i \in 1..Len(items) : ~assembled[i].ok}
  IN IF failed # {} THEN assembled[CHOOSE i \in failed : \A j \in failed : i <= j]
     ELSE [ok |-> TRUE,
           result |-> [i \in 1..Len(items) |->
                         [addr |-> items[i].addr,
                          bytes |-> IF items[i].type = "data" THEN items[i].data
                                    ELSE <<assembled[i].opcode, assembled[i].operand>>]]]

\* assembleProgram, second pass: every instruction through assembleLine
secondPass(first) ==
  IF ~first.ok THEN first
  ELSE collect(first.items,
               [i \in 1..Len(first.items) |->
                  IF first.items[i].type = "data" THEN Array(first.items[i].data)
                  ELSE assembleLine(first.items[i].line, first.labels, first.items[i].addr)])

\* assembleProgram, the output buffer: result[0] gives its first address, the
\* last result its size; a later item overwrites an earlier one and a byte
\* outside the buffer is dropped
buffer(result) ==
  LET minAddr == result[1].addr
      maxAddr == result[Len(result)].addr + Len(result[Len(result)].bytes) - 1
      size == maxAddr - minAddr + 1
      covering(a) == {i \in 1..Len(result) :
                        a >= result[i].addr /\ a < result[i].addr + Len(result[i].bytes)}
      last(a) == CHOOSE i \in covering(a) : \A j \in covering(a) : j <= i
  IN IF size < 0
       THEN [ok |-> FALSE, error |-> [name |-> "RangeError",
                                      message |-> "Invalid typed array length"]]
     ELSE [ok |-> TRUE,
           bytes |-> [i \in 1..size |->
                        IF covering(minAddr + i - 1) = {} THEN 0
                        ELSE result[last(minAddr + i - 1)].bytes[
                               minAddr + i - result[last(minAddr + i - 1)].addr]]]

\* assembleProgram, after the second pass
output(second) ==
  IF ~second.ok THEN second
  ELSE IF second.result = <<>> THEN [ok |-> TRUE, bytes |-> <<>>]
  ELSE buffer(second.result)

\* assembleProgram(lines, startAddr)
assembleProgram(lines, startAddr) ==
  output(secondPass(firstPass(lines, startAddr, NoLabels, <<>>)))

\* No command of the interactive host has assembled or loaded anything yet
NoJob == [kind |-> "none", build |-> "", arg |-> <<>>, out |-> <<>>,
          before |-> <<>>, after |-> <<>>, bangs |-> 0, text |-> ""]

\* The machine as one value: the fields of CPU, the host's inputBuffer, the logs
Cpu ==
  [registers |-> registers, memory |-> memory, pc |-> pc,
   flagZ |-> flagZ, flagC |-> flagC, flagN |-> flagN, halted |-> halted,
   hasIO |-> hasIO, outLog |-> outLog, inputBuffer |-> inputBuffer,
   faultLog |-> faultLog]

\* The variables take the fields of machine t
Becomes(t) ==
  /\ registers' = t.registers
  /\ memory' = t.memory
  /\ pc' = t.pc
  /\ flagZ' = t.flagZ
  /\ flagC' = t.flagC
  /\ flagN' = t.flagN
  /\ halted' = t.halted
  /\ hasIO' = t.hasIO
  /\ outLog' = t.outLog
  /\ inputBuffer' = t.inputBuffer
  /\ faultLog' = t.faultLog

\* new CPU(): the constructor calls reset on the zeroed fields
Fresh ==
  reset([registers |-> [r \in Regs |-> 0], memory |-> [a \in {} |-> 0], pc |-> 0,
         flagZ |-> FALSE, flagC |-> FALSE, flagN |-> FALSE, halted |-> FALSE,
         hasIO |-> FALSE, outLog |-> <<>>, inputBuffer |-> <<>>, faultLog |-> <<>>])

\* applyConditions, createCPU's callbacks and the PC poke of the host
applyConditions(s, sc) ==
  [s EXCEPT !.registers = sc.regs,
            !.flagZ = sc.flags[1], !.flagC = sc.flags[2], !.flagN = sc.flags[3],
            !.memory = MemSet(s.memory, sc.pokes),
            !.hasIO = sc.hasIO, !.inputBuffer = sc.inp]

\* Register presets of the host: R14:R15 is the stack pointer sp
RegsA(sp) == [r \in Regs |-> IF r = 14 THEN sp \div 256 ELSE IF r = 15 THEN sp % 256 ELSE r + 1]
RegsB(sp) == [r \in Regs |-> IF r = 14 THEN sp \div 256 ELSE IF r = 15 THEN sp % 256 ELSE 240 + r]

NoPokes == [a \in {} |-> 0]
FlagPresets == {<<FALSE, FALSE, TRUE>>, <<TRUE, TRUE, FALSE>>}
ProbeOperands == {0, 1, 16, 35, 239}
ProbeStarts == {256, 257, 65534}
ProbeRegs == {RegsA(1024), RegsB(65279), [r \in Regs |-> IF r = 0 THEN 5 ELSE 0]}

\* One instruction of every opcode byte, at an even, an odd and the last address
ProbeScenarios ==
  { [regs |-> rs, flags |-> fl, pokes |-> NoPokes, data |-> <<op, arg>>, address |-> st,
     pc |-> st, hasIO |-> TRUE, inp |-> <<>>] :
      op \in Byte, arg \in ProbeOperands, st \in ProbeStarts, rs \in ProbeRegs,
      fl \in FlagPresets }

VectorPokes == { (254 :> 3), (254 :> 3) @@ (255 :> 1), (254 :> 1) @@ (255 :> 2) @@ (65534 :> 0) }

\* Faulting and non-faulting instructions under an installed fault vector
VectorScenarios ==
  { [regs |-> RegsA(1024), flags |-> <<TRUE, TRUE, FALSE>>, pokes |-> pk,
     data |-> <<op, arg>>, address |-> st, pc |-> st, hasIO |-> TRUE, inp |-> <<>>] :
      op \in {0, 1, 56, 81, 255}, arg \in {1, 16, 239}, st \in ProbeStarts, pk \in VectorPokes }

StackPointers == {1024, 0, 1, 2, 262, 65535}

\* PUSH rx,ry immediately followed by POP rx,ry
PushPopScenarios ==
  { [regs |-> RegsA(sp), flags |-> <<FALSE, FALSE, FALSE>>, pokes |-> NoPokes,
     data |-> <<96, arg, 97, arg>>, address |-> 256, pc |-> 256,
     hasIO |-> TRUE, inp |-> <<>>] :
      arg \in Byte, sp \in {1024, 2} }

\* CALL off8 with RET stored at its target
CallRetScenarios ==
  { [regs |-> RegsA(sp), flags |-> <<FALSE, FALSE, FALSE>>,
     pokes |-> (((st + 2 + signExtend(off)) % 65536) :> 89),
     data |-> <<87, off>>, address |-> st, pc |-> st, hasIO |-> TRUE, inp |-> <<>>] :
      st \in {256, 65534}, off \in {0, 2, 126, 128, 252}, sp \in StackPointers }

\* PRINT and INPUT with and without the callbacks, with and without pending input
IOScenarios ==
  { [regs |-> RegsA(1024), flags |-> fl, pokes |-> NoPokes,
     data |-> <<op, arg, op, arg>>, address |-> 256, pc |-> 256,
     hasIO |-> io, inp |-> buf] :
      op \in {112, 113}, arg \in {0, 35}, fl \in FlagPresets, io \in BOOLEAN,
      buf \in {<<>>, <<65>>, <<200, 0>>} }

\* A machine left as reset made it
PlainScenarios ==
  { [regs |-> [r \in Regs |-> 0], flags |-> <<FALSE, FALSE, FALSE>>, pokes |-> NoPokes,
     data |-> <<>>, address |-> 0, pc |-> 512, hasIO |-> io, inp |-> <<>>] :
      io \in BOOLEAN }

Scenarios ==
  ProbeScenarios \cup VectorScenarios \cup PushPopScenarios \cup CallRetScenarios
    \cup IOScenarios \cup PlainScenarios

Init ==
  /\ registers = Fresh.registers
  /\ memory = Fresh.memory
  /\ pc = Fresh.pc
  /\ flagZ = Fresh.flagZ
  /\ flagC = Fresh.flagC
  /\ flagN = Fresh.flagN
  /\ halted = Fresh.halted
  /\ hasIO = Fresh.hasIO
  /\ outLog = Fresh.outLog
  /\ inputBuffer = Fresh.inputBuffer
  /\ faultLog = Fresh.faultLog
  /\ phase = "fresh"
  /\ hist = <<>>
  /\ runFrame = NoRun
  /\ hostJob = NoJob

\* The host prepares the machine: preconditions, program bytes, PC
Setup ==
  /\ phase = "fresh"
  /\ \E sc \in Scenarios :
       LET t1 == applyConditions(Cpu, sc)
           t2 == loadProgram(t1, sc.data, sc.address)
       IN Becomes([t2 EXCEPT !.pc = sc.pc])
  /\ phase' = "ready"
  /\ UNCHANGED <<hist, runFrame, hostJob>>

\* One call of cpu.step(); hist keeps the machine as it was before each call
Step ==
  /\ phase = "ready"
  /\ Len(hist) < MaxSteps
  /\ Becomes(step(Cpu))
  /\ hist' = Append(hist, Cpu)
  /\ UNCHANGED <<phase, runFrame, hostJob>>

Next == Setup \/ Step

Spec == Init /\ [][Next]_vars

(***************************************************************************)
(* Observations over the step calls made so far.  Step k (1..Len(hist))    *)
(* took the machine Pre(k) to the machine Post(k).                         *)
(***************************************************************************)
Steps == 1..Len(hist)
Pre(k) == hist[k]
Post(k) == IF k < Len(hist) THEN hist[k + 1] ELSE Cpu

\* Step k raised a fault; FaultCode(k) is its code
Faulted(k) == Len(Post(k).faultLog) > Len(Pre(k).faultLog)
FaultCode(k) == Post(k).faultLog[Len(Post(k).faultLog)]

\* Step k fetched and executed the instruction at Pre(k).pc
Fetched(k) == ~Pre(k).halted /\ Pre(k).pc % 2 = 0
Opcode(k) == MemRead(Pre(k).memory, Pre(k).pc)
Operand(k) == MemRead(Pre(k).memory, Pre(k).pc + 1)
OpRx(k) == (ToInt32(Operand(k)) \div 16) % 16
OpRy(k) == ToInt32(Operand(k)) % 16

\* The 16-bit big-endian value stored at a, a+1 of memory m
WordAt(m, a) == MemRead(m, a) * 256 + MemRead(m, a + 1)

\* Memories m and n agree on every address outside the set except
SameMemoryExcept(m, n, except) ==
  \A a \in (DOMAIN m \cup DOMAIN n) \ except : MemRead(m, a) = MemRead(n, a)

SameFlags(s, t) == s.flagZ = t.flagZ /\ s.flagC = t.flagC /\ s.flagN = t.flagN

SameIO(s, t) == s.outLog = t.outLog /\ s.inputBuffer = t.inputBuffer /\ s.hasIO = t.hasIO

\* C1: once halted is true, a step call changes no register, no memory byte,
\* not PC, Z, C, N or halted, and calls neither I/O callback.
C1_HaltedStepIsNoOp ==
  \A k \in Steps :
    Pre(k).halted =>
      /\ Post(k).registers = Pre(k).registers
      /\ Post(k).memory = Pre(k).memory
      /\ Post(k).pc = Pre(k).pc
      /\ SameFlags(Post(k), Pre(k))
      /\ Post(k).halted
      /\ SameIO(Post(k), Pre(k))
      /\ Post(k).faultLog = Pre(k).faultLog

C1_Witness == \E k \in Steps : Pre(k).halted /\ Pre(k).hasIO

\* C2: every step that raises a fault with code K ends with R0 = K, the word at
\* 0x00FC equal to the PC at the start of the step, and PC equal to the word at 0x00FE.
C2_FaultEntry ==
  \A k \in Steps :
    Faulted(k) =>
      /\ Post(k).registers[0] = FaultCode(k)
      /\ WordAt(Post(k).memory, 252) = Pre(k).pc
      /\ Post(k).pc = WordAt(Post(k).memory, 254)

\* The registers rx..ry, the index wrapping from 15 to 0
RegRange(rx, ry) == { (rx + d) % 16 : d \in 0..((ry - rx) % 16) }

\* Steps k and k+1 executed PUSH rx,ry and then POP rx,ry with the same operand
PushThenPop(k) ==
  /\ k + 1 \in Steps
  /\ Fetched(k) /\ Opcode(k) = 96
  /\ Fetched(k + 1) /\ Opcode(k + 1) = 97
  /\ Operand(k + 1) = Operand(k)

\* C3: PUSH rx,ry immediately followed by POP rx,ry leaves every register of the
\* range rx..ry with the value it held before the PUSH.
C3_PushPopRestores ==
  \A k \in Steps :
    PushThenPop(k) =>
      \A r \in RegRange(OpRx(k), OpRy(k)) :
        Post(k + 1).registers[r] = Pre(k).registers[r]

\* The two bytes CALL pushes, given the stack pointer before it
PushedBytes(sp) == { (sp - 2) % 65536, (sp - 1) % 65536 }

\* Steps k and k+1 executed CALL off8 and the RET at its target, the pushed
\* bytes overlapping neither instruction
CallThenRet(k) ==
  /\ k + 1 \in Steps
  /\ Fetched(k) /\ Opcode(k) = 87
  /\ Fetched(k + 1) /\ Opcode(k + 1) = 89
  /\ Pre(k + 1).pc = (Pre(k).pc + 2 + signExtend(Operand(k))) % 65536
  /\ PushedBytes(StackPointer(Pre(k))) \cap
       {Pre(k).pc, Pre(k).pc + 1, Pre(k + 1).pc, Pre(k + 1).pc + 1} = {}

\* C4: CALL off8 to a RET, then that RET, leaves PC at the address after the
\* CALL and R14:R15 as before the CALL.
C4_CallRetRoundTrip ==
  \A k \in Steps :
    CallThenRet(k) =>
      /\ Post(k + 1).pc = (Pre(k).pc + 2) % 65536
      /\ StackPointer(Post(k + 1)) = StackPointer(Pre(k))

\* C5: after any sequence of steps from an even PC, PC is even or the most
\* recent fault raised was MISALIGNED_PC (0x03).
C5_PcEvenOrMisalignedFault ==
  (Len(hist) >= 1 /\ hist[1].pc % 2 = 0) =>
    \/ pc % 2 = 0
    \/ (Len(faultLog) > 0 /\ faultLog[Len(faultLog)] = 3)

\* C6: PC is always an integer in 0..65535.
C6_PcIs16Bit == pc \in 0..65535

\* Step k executed DIV Rx,Ry with R[ry] = 0
DivByZero(k) == Fetched(k) /\ Opcode(k) = 56 /\ Pre(k).registers[OpRy(k)] = 0

CanonicalOpcodes ==
  {0} \cup (16..31) \cup (32..37) \cup (48..56) \cup (64..70) \cup (80..89)
    \cup {96, 97} \cup {112, 113} \cup {255}

\* Machine t is machine s after fault entry with this code and nothing else
OnlyFaultEntry(s, t, code) ==
  /\ t.faultLog = Append(s.faultLog, code)
  /\ t.registers[0] = code
  /\ \A r \in Regs \ {0} : t.registers[r] = s.registers[r]
  /\ WordAt(t.memory, 252) = s.pc
  /\ SameMemoryExcept(s.memory, t.memory, {252, 253})
  /\ t.pc = WordAt(s.memory, 254)
  /\ SameFlags(s, t)
  /\ t.halted = s.halted
  /\ SameIO(s, t)

\* C8: an opcode byte outside the canonical table, fetched at an even PC, raises
\* fault 0x01 with the instruction's address saved and changes nothing else; an
\* opcode byte inside the table never raises fault 0x01.
C8_InvalidOpcodeFault ==
  \A k \in Steps :
    (Fetched(k) /\ Opcode(k) \in Byte) =>
      IF Opcode(k) \in CanonicalOpcodes
      THEN ~(Faulted(k) /\ FaultCode(k) = 1)
      ELSE OnlyFaultEntry(Pre(k), Post(k), 1)

C8_Witness ==
  /\ \E k \in Steps : Fetched(k) /\ Opcode(k) = 114 /\ Faulted(k) /\ Pre(k).flagZ
  /\ \E k \in Steps : Fetched(k) /\ Opcode(k) = 255 /\ ~Faulted(k) /\ Post(k).halted

\* C9: a step begun with an odd PC raises fault 0x03 and, apart from R0,
\* mem[0x00FC], mem[0x00FD] and PC, changes nothing, whatever is stored at PC.
C9_MisalignedPcFault ==
  \A k \in Steps :
    (~Pre(k).halted /\ Pre(k).pc % 2 = 1) => OnlyFaultEntry(Pre(k), Post(k), 3)

C9_Witness ==
  \E k \in Steps :
    /\ ~Pre(k).halted /\ Pre(k).pc % 2 = 1
    /\ MemRead(Pre(k).memory, Pre(k).pc) = 35
    /\ Faulted(k)

\* The fault vector and the backstop of memory m are as reset installed them
DefaultBackstop(m) == WordAt(m, 254) = 65534 /\ MemRead(m, 65534) = 255

\* C10: with the reset vector (0xFFFE) and the HLT at 0xFFFE still in place, the
\* step after a faulting step sets halted with PC = 0xFFFE and R0 = the fault code.
C10_UntrappedFaultHalts ==
  \A k \in Steps :
    (k + 1 \in Steps /\ Faulted(k) /\ DefaultBackstop(Post(k).memory)) =>
      /\ Post(k + 1).halted
      /\ Post(k + 1).pc = 65534
      /\ Post(k + 1).registers[0] = FaultCode(k)

C10_Witness ==
  \E k \in Steps :
    /\ k + 1 \in Steps /\ Faulted(k) /\ DefaultBackstop(Post(k).memory)
    /\ FaultCode(k) = 3
    /\ ~Pre(k + 1).halted /\ Post(k + 1).halted

(***************************************************************************)
(* The host calls cpu.run(maxSteps) on a prepared machine.                 *)
(***************************************************************************)
\* Largest small budget the host passes to run, and runs it makes on one machine
MaxBudget == 3
MaxRuns == 2

NoRegs == [r \in Regs |-> 0]
NoFlags == <<FALSE, FALSE, FALSE>>

\* A program at an address with PC on it, nothing else touched, and a budget
RunCase(data, address, pokes, budget) ==
  [regs |-> NoRegs, flags |-> NoFlags, pokes |-> pokes, data |-> data,
   address |-> address, pc |-> address, hasIO |-> TRUE, inp |-> <<>>, budget |-> budget]

SmallBudgets == 0..MaxBudget

\* LDI0 $48; STORZ $FA; HLT  and  LDI0 6; LDI1 7; MUL R0,R1; HLT
HelloProgram == <<16, 72, 37, 250, 255, 255>>
MulProgram == <<16, 6, 17, 7, 55, 1, 255, 255>>

RunScenarios ==
  \* the machine as reset left it, and a program that falls into zeroed memory
  { RunCase(<<>>, 512, NoPokes, b) : b \in {2, 1000000} }
    \cup { RunCase(<<16, 72, 37, 250>>, 65280, NoPokes, 1000000) }
  \* ten NOPs before the HLT at 0xFFFE
    \cup { RunCase(<<>>, 65514, NoPokes, b) : b \in SmallBudgets \cup {10, 11, 1000000} }
  \* programs that end in HLT
    \cup { RunCase(p, 512, NoPokes, b) :
             p \in {HelloProgram, MulProgram, <<255, 255>>}, b \in SmallBudgets \cup {100000} }
  \* programs that never halt: JMP -2, and JMP -4 after a NOP
    \cup { RunCase(p, 512, NoPokes, b) :
             p \in {<<80, 254>>, <<0, 0, 80, 252>>}, b \in SmallBudgets }
  \* faults under the default vector and under vectors 0x0300 and 0x0301
    \cup { RunCase(<<op, 1>>, 512, pk, b) :
             op \in {1, 56}, pk \in {NoPokes, (254 :> 3) @@ (255 :> 0), (254 :> 3) @@ (255 :> 1)},
             b \in SmallBudgets }

\* The host prepares the machine and enters run(maxSteps): let steps = 0
SetupRun ==
  /\ phase = "fresh"
  /\ \E sc \in RunScenarios :
       LET t1 == applyConditions(Cpu, sc)
           t2 == loadProgram(t1, sc.data, sc.address)
           t3 == [t2 EXCEPT !.pc = sc.pc]
       IN /\ Becomes(t3)
          /\ runFrame' = [maxSteps |-> sc.budget, steps |-> 0, calls |-> 0,
                          runs |-> 1, start |-> t3]
  /\ phase' = "running"
  /\ UNCHANGED <<hist, hostJob>>

\* while (steps < maxSteps && this.step()) steps++   with the first operand true
RunStep ==
  /\ phase = "running"
  /\ runTest(runFrame.steps, runFrame.maxSteps)
  /\ Becomes(step(Cpu))
  /\ runFrame' = [runFrame EXCEPT !.steps = runCount(runFrame.steps, stepResult(Cpu)),
                                  !.calls = runFrame.calls + 1]
  /\ phase' = IF stepResult(Cpu) THEN "running" ELSE "returned"
  /\ UNCHANGED <<hist, hostJob>>

\* The while test with its first operand false: return steps
RunExhausted ==
  /\ phase = "running"
  /\ ~runTest(runFrame.steps, runFrame.maxSteps)
  /\ phase' = "returned"
  /\ UNCHANGED <<registers, memory, pc, flagZ, flagC, flagN, halted,
                 hasIO, outLog, inputBuffer, faultLog, hist, runFrame, hostJob>>

\* The host calls run again on the machine the last run left
RunAgain ==
  /\ phase = "returned"
  /\ runFrame.runs < MaxRuns
  /\ runFrame' = [runFrame EXCEPT !.steps = 0, !.calls = 0,
                                  !.runs = runFrame.runs + 1, !.start = Cpu]
  /\ phase' = "running"
  /\ UNCHANGED <<registers, memory, pc, flagZ, flagC, flagN, halted,
                 hasIO, outLog, inputBuffer, faultLog, hist, hostJob>>

NextRun == SetupRun \/ RunStep \/ RunExhausted \/ RunAgain

SpecRun == Init /\ [][NextRun]_vars

\* run is a synchronous loop: an iteration that can be made is made
SpecRunFair == SpecRun /\ WF_vars(RunStep) /\ WF_vars(RunExhausted)

\* Machine s stands, not halted, at an even PC with only zero bytes (NOPs) from
\* PC up to the HLT that reset wrote at 0xFFFE
OnNopSlide(s) ==
  /\ ~s.halted
  /\ s.pc \in 0..65534 /\ s.pc % 2 = 0
  /\ \A a \in DOMAIN s.memory : a \notin s.pc..65533
  /\ MemRead(s.memory, 65534) = 255

\* Instructions a program may execute before it falls into zeroed memory
MaxPrefix == 2

RECURSIVE StepN(_, _)
\* The machine after k step calls
StepN(s, k) == IF k = 0 THEN s ELSE StepN(step(s), k - 1)

FallsOntoNopSlide(s) == \E k \in 0..MaxPrefix : OnNopSlide(StepN(s, k))

\* One loop iteration of run on the slide: a NOP moves PC up by 2 and stays on
\* the slide; at 0xFFFE the HLT halts the machine and run returns
C11_SlideIteration ==
  (phase = "running" /\ OnNopSlide(Cpu) /\ runFrame.steps < runFrame.maxSteps) =>
    IF pc < 65534
    THEN pc' = pc + 2 /\ phase' = "running" /\ OnNopSlide(Cpu')
    ELSE halted' /\ pc' = 65534 /\ phase' = "returned"

\* run(1_000_000) on such a machine returns with halted = true and PC = 0xFFFE
C11_SlideReturn ==
  (phase = "returned" /\ runFrame.maxSteps = 1000000 /\ FallsOntoNopSlide(runFrame.start)) =>
    halted /\ pc = 65534

\* C11: from the reset state, or from a program that falls through into zeroed
\* memory, repeated steps execute NOPs with PC rising by 2 up to the HLT at
\* 0xFFFE, and run(1_000_000) returns with halted = true and PC = 0xFFFE.
C11_NopSlideHalts == [][C11_SlideIteration]_vars /\ []C11_SlideReturn

C11_Witness ==
  /\ phase = "returned" /\ halted /\ pc = 65534
  /\ runFrame.maxSteps = 1000000
  /\ runFrame.start.pc = 512 /\ runFrame.start.memory = Fresh.memory
  /\ runFrame.calls = 32512

\* What holds of every activation of run: it has called step at most maxSteps
\* times, it makes no call after a call that halted the machine, and when it
\* has returned the machine is halted or the count returned is maxSteps
C12_RunSafety ==
  phase \in {"running", "returned"} =>
    /\ runFrame.calls <= runFrame.maxSteps
    /\ runFrame.steps <= runFrame.calls
    /\ (phase = "running" /\ halted => runFrame.calls = 0)
    /\ (phase = "returned" => halted \/ runFrame.steps = runFrame.maxSteps)

\* C12: for every maxSteps >= 0 and every program, looping ones included,
\* run(maxSteps) terminates, calls step at most maxSteps times, executes nothing
\* after the machine has halted, and returns with halted true or count = maxSteps.
C12_RunTerminates ==
  []C12_RunSafety /\ ((phase = "running") ~> (phase = "returned"))

C12_Witness ==
  /\ phase = "returned" /\ ~halted
  /\ runFrame.maxSteps > 1 /\ runFrame.steps = runFrame.maxSteps
  /\ runFrame.calls = runFrame.maxSteps
  /\ pc = runFrame.start.pc

\* C13: when run ends because the program executed HLT, the count it returns is
\* the number of instructions executed, the HLT included (3 for LDI0; STORZ; HLT).
C13_RunCountsHalt ==
  (phase = "returned" /\ halted /\ ~runFrame.start.halted /\ faultLog = <<>>) =>
    runFrame.steps = runFrame.calls

(***************************************************************************)
(* Arithmetic, logic, shift and SWAP instructions on chosen register       *)
(* contents, run by the single-step harness.                               *)
(***************************************************************************)
ByteSamples == {0, 1, 127, 128, 254, 255}
AllFlags == <<TRUE, TRUE, TRUE>>

\* The operand byte (x << 4) | y
Operand2(x, y) == x * 16 + y

\* A program at 0x0100 under given registers and flags
AluCase(rs, fl, data) ==
  [regs |-> rs, flags |-> fl, pokes |-> NoPokes, data |-> data, address |-> 256,
   pc |-> 256, hasIO |-> TRUE, inp |-> <<>>]

\* Register pairs <<hiA, loA, hiB, loB>> holding two 16-bit values
PairPlacements == {<<0, 1, 2, 3>>, <<15, 0, 7, 8>>}

\* The host prepares the machine for a test and points PC at the program
Prepare(sc) ==
  /\ phase = "fresh"
  /\ LET t1 == applyConditions(Cpu, sc)
         t2 == loadProgram(t1, sc.data, sc.address)
     IN Becomes([t2 EXCEPT !.pc = sc.pc])
  /\ phase' = "ready"
  /\ UNCHANGED <<hist, runFrame, hostJob>>

\* ADD lo; ADC hi  and  SUB lo; SBC hi  on two 16-bit values
SetupWide ==
  /\ phase = "fresh"
  /\ \E ha \in ByteSamples, la \in ByteSamples, hb \in ByteSamples, lb \in ByteSamples,
        pl \in PairPlacements, fl \in {NoFlags, AllFlags}, ops \in {<<48, 49>>, <<50, 51>>} :
       Prepare(AluCase([r \in Regs |-> IF r = pl[1] THEN ha ELSE IF r = pl[2] THEN la
                                       ELSE IF r = pl[3] THEN hb ELSE IF r = pl[4] THEN lb
                                       ELSE 85],
                       fl,
                       <<ops[1], Operand2(pl[2], pl[4]), ops[2], Operand2(pl[1], pl[3])>>))

RegsC == [r \in Regs |-> (r * 37) % 256]

\* MUL and DIV with every operand byte
SetupMulDiv ==
  /\ phase = "fresh"
  /\ \E op \in {55, 56}, arg \in Byte, rs \in {RegsA(1024), RegsB(65279), RegsC},
        fl \in {NoFlags, AllFlags} :
       Prepare(AluCase(rs, fl, <<op, arg>>))

\* SHL Rx; SHR Rx  and  SHR Rx; SHL Rx  on every byte value
SetupShift ==
  /\ phase = "fresh"
  /\ \E x \in Regs, v \in Byte, c \in BOOLEAN, ops \in {<<68, 69>>, <<69, 68>>} :
       Prepare(AluCase([r \in Regs |-> IF r = x THEN v ELSE 0], <<FALSE, c, FALSE>>,
                       <<ops[1], Operand2(x, 0), ops[2], Operand2(x, 0)>>))

\* TEST Rx,Ry followed by AND, OR, XOR or NOT on the same registers
SetupLogic ==
  /\ phase = "fresh"
  /\ \E a \in ByteSamples \cup {85}, b \in ByteSamples \cup {15},
        op \in {64, 65, 66, 67}, arg \in {0, 1, 16, 35},
        fl \in {NoFlags, AllFlags, <<FALSE, TRUE, FALSE>>} :
       Prepare(AluCase([r \in Regs |-> IF r % 2 = 0 THEN a ELSE b], fl,
                       <<70, arg, op, arg>>))

\* SWAP Rx,Ry twice
SetupSwap ==
  /\ phase = "fresh"
  /\ \E arg \in Byte, rs \in {RegsA(1024), RegsC}, fl \in {NoFlags, AllFlags} :
       Prepare(AluCase(rs, fl, <<33, arg, 33, arg>>))

NextAlu == SetupWide \/ SetupMulDiv \/ SetupShift \/ SetupLogic \/ SetupSwap \/ Step

SpecAlu == Init /\ [][NextAlu]_vars

(***************************************************************************)
(* Properties of the arithmetic, logic, shift and SWAP instructions        *)
(***************************************************************************)
\* Steps k and k+1 executed opcodes op1 and op2
Chain(k, op1, op2) ==
  /\ k + 1 \in Steps
  /\ Fetched(k) /\ Opcode(k) = op1
  /\ Fetched(k + 1) /\ Opcode(k + 1) = op2

\* Steps k and k+1 are "op1 loA,loB; op2 hiA,hiB" on four distinct registers
WideChain(k, op1, op2) ==
  /\ Chain(k, op1, op2)
  /\ Cardinality({OpRx(k), OpRy(k), OpRx(k + 1), OpRy(k + 1)}) = 4

\* The 16-bit values A (first operands) and B (second operands) before step k,
\* and the value left in A's registers after step k+1
WideA(k) == Word(Pre(k).registers[OpRx(k + 1)], Pre(k).registers[OpRx(k)])
WideB(k) == Word(Pre(k).registers[OpRy(k + 1)], Pre(k).registers[OpRy(k)])
WideResult(k) == Word(Post(k + 1).registers[OpRx(k + 1)], Post(k + 1).registers[OpRx(k)])

\* C14: ADD loA,loB then ADC hiA,hiB on two distinct register pairs leaves
\* hiA:loA = (A+B) mod 65536 and C = 1 exactly when A+B >= 65536, whatever the
\* flags were before the ADD.
C14_AddAdc16 ==
  \A k \in Steps :
    WideChain(k, 48, 49) =>
      /\ WideResult(k) = (WideA(k) + WideB(k)) % 65536
      /\ Post(k + 1).flagC = (WideA(k) + WideB(k) >= 65536)

\* 0xFFFF + 0x0001 with C set before the ADD: the carry ripples through both bytes
C14_Witness ==
  \E k \in Steps :
    /\ WideChain(k, 48, 49)
    /\ Pre(k).flagC
    /\ WideA(k) = 65535 /\ WideB(k) = 1
    /\ Post(k).flagC
    /\ WideResult(k) = 0 /\ Post(k + 1).flagC

\* C15: SUB loA,loB then SBC hiA,hiB on two distinct register pairs leaves
\* hiA:loA = (A-B) mod 65536 and C = 1 exactly when B > A, whatever the flags
\* were before the SUB.
C15_SubSbc16 ==
  \A k \in Steps :
    WideChain(k, 50, 51) =>
      /\ WideResult(k) = (WideA(k) - WideB(k)) % 65536
      /\ Post(k + 1).flagC = (WideB(k) > WideA(k))

\* 0x0100 - 0x0101: the low byte borrows and the high bytes are equal
C15_Witness ==
  \E k \in Steps :
    /\ WideChain(k, 50, 51)
    /\ WideA(k) = 256 /\ WideB(k) = 257
    /\ Post(k).flagC
    /\ WideResult(k) = 65535 /\ Post(k + 1).flagC

\* C16: after MUL Rx,Ry the pair R[rx]:R[(rx+1)&0xF] holds the product of the
\* values R[rx] and R[ry] had before the instruction (ry = rx and ry = rx+1
\* included); Z = 1 iff the product is 0, C = 1 iff it exceeds 0xFF, N is bit 7
\* of the low byte.
C16_MulProduct ==
  \A k \in Steps :
    (Fetched(k) /\ Opcode(k) = 55) =>
      LET product == Pre(k).registers[OpRx(k)] * Pre(k).registers[OpRy(k)]
          lo == Post(k).registers[(OpRx(k) + 1) % 16]
      IN /\ Word(Post(k).registers[OpRx(k)], lo) = product
         /\ Post(k).flagZ = (product = 0)
         /\ Post(k).flagC = (product > 255)
         /\ Post(k).flagN = ((lo \div 128) % 2 = 1)

\* A square with both bytes non-zero, and a product read from R[rx+1]
C16_Witness ==
  \E k \in Steps :
    /\ Fetched(k) /\ Opcode(k) = 55
    /\ OpRy(k) = OpRx(k)
    /\ Pre(k).registers[OpRx(k)] = 255
    /\ Post(k).registers[OpRx(k)] = 254
    /\ Post(k).registers[(OpRx(k) + 1) % 16] = 1
    /\ Post(k).flagC /\ ~Post(k).flagN /\ ~Post(k).flagZ

\* C17: after DIV Rx,Ry with R[ry] # 0 before the instruction,
\* R[rx]_pre = R[rx]_post * R[ry]_pre + R[(rx+1)&0xF]_post with the remainder
\* below R[ry]_pre; C = 0, Z = 1 iff the quotient is 0, and PC advanced by 2.
C17_DivQuotientRemainder ==
  \A k \in Steps :
    (Fetched(k) /\ Opcode(k) = 56 /\ Pre(k).registers[OpRy(k)] # 0) =>
      LET quotient == Post(k).registers[OpRx(k)]
          remainder == Post(k).registers[(OpRx(k) + 1) % 16]
          divisor == Pre(k).registers[OpRy(k)]
      IN /\ Pre(k).registers[OpRx(k)] = quotient * divisor + remainder
         /\ remainder < divisor
         /\ ~Post(k).flagC
         /\ Post(k).flagZ = (quotient = 0)
         /\ Post(k).pc = Pre(k).pc + 2

\* A division by R[rx+1] with a quotient above 1 and a non-zero remainder
C17_Witness ==
  \E k \in Steps :
    /\ Fetched(k) /\ Opcode(k) = 56
    /\ OpRy(k) = (OpRx(k) + 1) % 16
    /\ Pre(k).registers[OpRy(k)] > 1
    /\ Post(k).registers[OpRx(k)] > 1
    /\ Post(k).registers[OpRy(k)] > 0
    /\ ~Faulted(k)

\* C18: SHL Rx immediately followed by SHR Rx leaves R[x] and C as they were
\* before the SHL, and SHR Rx immediately followed by SHL Rx likewise.
C18_ShiftRoundTrip ==
  \A k \in Steps :
    ((Chain(k, 68, 69) \/ Chain(k, 69, 68)) /\ OpRx(k + 1) = OpRx(k)) =>
      /\ Post(k + 1).registers[OpRx(k)] = Pre(k).registers[OpRx(k)]
      /\ Post(k + 1).flagC = Pre(k).flagC

\* 0x81 with C clear: SHL moves bit 7 into C and SHR brings it back
C18_Witness ==
  \E k \in Steps :
    /\ Chain(k, 68, 69) /\ OpRx(k + 1) = OpRx(k)
    /\ Pre(k).registers[OpRx(k)] = 129 /\ ~Pre(k).flagC
    /\ Post(k).registers[OpRx(k)] = 2 /\ Post(k).flagC
    /\ Post(k + 1).registers[OpRx(k)] = 129 /\ ~Post(k + 1).flagC

\* The set of bit positions that are 1 in the byte v
Bits(v) == {i \in 0..7 : (v \div (2 ^ i)) % 2 = 1}

\* The bits AND, OR, XOR, NOT (opcodes 0x40..0x43) and TEST (0x46) compute from a, b
LogicBits(op, a, b) ==
  CASE op \in {64, 70} -> Bits(a) \cap Bits(b)
    [] op = 65 -> Bits(a) \cup Bits(b)
    [] op = 66 -> (Bits(a) \cup Bits(b)) \ (Bits(a) \cap Bits(b))
    [] op = 67 -> (0..7) \ Bits(a)

C20_SwapTwice ==
  \A k \in Steps :
    (Chain(k, 33, 33) /\ Operand(k + 1) = Operand(k)) =>
      /\ Post(k + 1).registers = Pre(k).registers
      /\ SameFlags(Post(k + 1), Pre(k))
      /\ Post(k + 1).memory = Pre(k).memory
      /\ Post(k + 1).pc = Pre(k).pc + 4

\* Two registers with different contents are exchanged and exchanged back
C20_Witness ==
  \E k \in Steps :
    /\ Chain(k, 33, 33) /\ Operand(k + 1) = Operand(k)
    /\ Pre(k).registers[OpRx(k)] # Pre(k).registers[OpRy(k)]
    /\ Post(k).registers[OpRx(k)] = Pre(k).registers[OpRy(k)]
    /\ Post(k).registers[OpRy(k)] = Pre(k).registers[OpRx(k)]
    /\ Post(k + 1).registers = Pre(k).registers
    /\ Pre(k).flagZ /\ Pre(k).flagC /\ Pre(k).flagN

\* C21: PUSH rx,ry immediately followed by POP rx,ry leaves the stack pointer
\* R14:R15 equal to its value before the PUSH, ranges holding R14 or R15 included.
C21_PushPopKeepsSp ==
  \A k \in Steps :
    PushThenPop(k) => StackPointer(Post(k + 1)) = StackPointer(Pre(k))

\* PUSH R14,R1; POP R14,R1 from SP = 0x0400: four bytes pushed and popped
C21_Witness ==
  \E k \in Steps :
    /\ PushThenPop(k)
    /\ OpRx(k) = 14 /\ OpRy(k) = 1
    /\ StackPointer(Pre(k)) = 1024
    /\ StackPointer(Post(k)) = 1020
    /\ StackPointer(Post(k + 1)) = 1024

(***************************************************************************)
(* The REPL's reset command, on a machine that has run                     *)
(***************************************************************************)
\* case 'reset': cpu.reset()
ResetCmd ==
  /\ phase \in {"ready", "reset"}
  /\ Becomes(reset(Cpu))
  /\ phase' = "reset"
  /\ UNCHANGED <<hist, runFrame, hostJob>>

NextReset == Setup \/ Step \/ ResetCmd

SpecReset == Init /\ [][NextReset]_vars

\* C22: from any prior state reset leaves all 16 registers 0, every memory byte
\* (the stored ones are the non-zero ones) 0 except mem[0xFFFE] = mem[0xFFFF] = 0xFF, mem[0x00FE] = 0xFF and
\* mem[0x00FF] = 0xFE, PC = 0x0200, Z = C = N = false and halted = false.
C22_ResetState ==
  phase = "reset" =>
    /\ \A r \in Regs : registers[r] = 0
    /\ \A a \in DOMAIN memory \cup {254, 255, 65534, 65535} :
         MemRead(memory, a) = (CASE a \in {65534, 65535, 254} -> 255
                                 [] a = 255 -> 254
                                 [] OTHER -> 0)
    /\ pc = 512
    /\ ~flagZ /\ ~flagC /\ ~flagN
    /\ ~halted

\* reset of a machine that had halted on an untrapped fault with other
\* registers, memory and flags than reset leaves
C22_Witness ==
  /\ phase = "reset"
  /\ ~halted /\ pc = 512
  /\ Len(hist) > 1
  /\ LET last == hist[Len(hist)]
     IN /\ last.halted
        /\ last.faultLog # <<>>
        /\ last.memory # Fresh.memory
        /\ last.registers # Fresh.registers
        /\ last.flagC

\* C30: INPUT Rx stores in R[rx] the byte onCharInput returns, or 0 when no
\* callback is attached or no byte is available; Z = 1 iff the stored byte is 0,
\* N is its bit 7, C is unchanged and PC advances by 2.
C30_InputNeverBlocks ==
  \A k \in Steps :
    (Fetched(k) /\ Opcode(k) = 113) =>
      LET byte == IF Pre(k).hasIO /\ Pre(k).inputBuffer # <<>>
                    THEN Head(Pre(k).inputBuffer) % 256 ELSE 0
      IN /\ Post(k).registers[OpRx(k)] = byte
         /\ Post(k).flagZ = (byte = 0)
         /\ Post(k).flagN = (byte >= 128)
         /\ Post(k).flagC = Pre(k).flagC
         /\ Post(k).pc = Pre(k).pc + 2
         /\ ~Post(k).halted

\* Two INPUTs with C set: the first takes the waiting byte 200, the second the
\* waiting byte 0
C30_Witness ==
  \E k \in Steps :
    /\ Chain(k, 113, 113)
    /\ Pre(k).hasIO /\ Pre(k).inputBuffer = <<200, 0>>
    /\ Pre(k).flagC /\ Post(k + 1).flagC
    /\ Post(k).registers[OpRx(k)] = 200 /\ Post(k).flagN /\ ~Post(k).flagZ
    /\ Post(k + 1).registers[OpRx(k)] = 0 /\ Post(k + 1).flagZ

(***************************************************************************)
(* The interactive host: the commands !instruction, @addr instruction,     *)
(* @addr, asm, load and dis of the REPL.  hostJob keeps the last command   *)
(* that assembled or loaded: its argument, the assembler's result, the     *)
(* machine before and after it, and the text dis printed last.             *)
(***************************************************************************)
MaxBangs == 2

\* The module './assembler.js' resolves to: part_002 or assembler.ts
Builds == {"part_002", "assembler.ts"}
assembleOf(build, instruction) ==
  IF build = "part_002" THEN assemble(instruction) ELSE refAssemble(instruction)

\* A command took the machine to t; hostJob keeps what it was given and made
Done(kind, build, arg, out, t, bangs) ==
  /\ Becomes(t)
  /\ hostJob' = [kind |-> kind, build |-> build, arg |-> arg, out |-> out,
                 before |-> Cpu, after |-> t, bangs |-> bangs, text |-> ""]

\* cpu.memory[addr] = opcode, [addr + 1] = operand and, when the result has an
\* immediate, [addr + 2] and [addr + 3]
storeAssembled(m, addr, assembled) ==
  LET m1 == MemWrite(m, addr, assembled.opcode)
      m2 == MemWrite(m1, addr + 1, assembled.operand)
  IN IF assembled.immediate = <<>> THEN m2
     ELSE MemWrite(MemWrite(m2, addr + 2, assembled.immediate[1]),
                   addr + 3, assembled.immediate[2])

\* The handler of "!instruction"
bang(s, assembled) ==
  LET tempAddr == 256
      t1 == [s EXCEPT !.memory = storeAssembled(s.memory, tempAddr, assembled),
                      !.pc = tempAddr]
      t2 == step(t1)
      isJumpInstruction == assembled.opcode >= 80 /\ assembled.opcode <= 88
  IN IF ~assembled.ok THEN s
     ELSE IF isJumpInstruction THEN t2 ELSE [t2 EXCEPT !.pc = s.pc]

\* The handler of "@addr instruction"; parseInt(parts[0], 16) gives addr
atAssemble(s, token, assembled) ==
  IF ~assembled.ok THEN s
  ELSE IF isNaN(parseInt(token, 16)) THEN s
  ELSE [s EXCEPT !.memory = storeAssembled(s.memory, parseInt(token, 16), assembled)]

\* The handler of "@addr"
atAddress(s, token) ==
  IF isNaN(parseInt(token, 16)) THEN s
  ELSE [s EXCEPT !.pc = parseInt(token, 16) % 65536]

\* The handler of "asm" once the blank line is entered
asmBlock(s, bytes) ==
  IF ~bytes.ok THEN s ELSE loadProgram(s, bytes.bytes, s.pc)

\* Operand tokens
RegTok(n) == <<"R">> \o ToDecChars(n)
Tgt == <<"T", "g", "t">>
TgtRef == <<"t", "g", "t">>

\* Instructions typed after "!": flag and stack-pointer set-up, and two texts
\* that are not instructions
BangInstrs ==
  { Instr("XOR", <<RegTok(0), RegTok(0)>>), Instr("LDI0", <<HexOperand(255)>>),
    Instr("SHL", <<RegTok(0)>>), Instr("LDI14", <<HexOperand(4)>>),
    Instr("BOGUS", <<>>), Instr("MOV", <<RegTok(16), RegTok(1)>>) }

BangCmd ==
  /\ phase \in {"fresh", "repl"}
  /\ hostJob.bangs < MaxBangs
  /\ \E instruction \in BangInstrs, build \in Builds :
       Done("bang", build, instruction, assembleOf(build, instruction),
            bang(Cpu, assembleOf(build, instruction)), hostJob.bangs + 1)
  /\ phase' = "repl"
  /\ UNCHANGED <<hist, runFrame>>

\* Operands of every shape, well-formed and not
ImmSamples ==
  { <<HexOperand(72)>>, <<HexOperand(254)>>, <<<<"2", "5", "5">>>>, <<<<"-", "2">>>>,
    <<<<"0", "b", "1", "0", "1">>>>, <<<<"'", "a", "'">>>>, <<<<"z">>>>, <<>> }
RegSamples == { <<RegTok(3)>>, <<RegTok(15)>>, <<<<"r", "2", "x">>>>, <<RegTok(16)>>, <<>> }
RegsSamples ==
  { <<RegTok(1), RegTok(2)>>, <<RegTok(15), RegTok(0)>>, <<RegTok(2), <<"R", "1", "Q">>>>,
    <<RegTok(1)>>, <<<<"X", "1">>, RegTok(1)>> }
NoneSamples == { <<>>, <<RegTok(1)>> }
OtherSamples ==
  { <<RegTok(5), HexOperand(10)>>, <<RegTok(1), RegTok(2), HexOperand(4660)>> }
OperandSamples ==
  ImmSamples \cup RegSamples \cup RegsSamples \cup NoneSamples \cup OtherSamples
Mnemonics == DOMAIN asmTable \cup DOMAIN refAsmTable \cup {"BOGUS"}
AtTokens == { <<"0", "2", "0", "0">>, <<"2", "7", "E">>, <<"2", "7", "D">>,
              <<"2", "0", "2">>, <<"z", "z">> }

AtAsmCmd ==
  /\ phase = "fresh"
  /\ \E mn \in Mnemonics, ops \in OperandSamples, build \in Builds,
        token \in {<<"0", "2", "0", "0">>, <<"3", "0", "0">>} :
       Done("atasm", build, [addr |-> token, instruction |-> Instr(mn, ops)],
            assembleOf(build, Instr(mn, ops)),
            atAssemble(Cpu, token, assembleOf(build, Instr(mn, ops))), hostJob.bangs)
  /\ phase' = "ready"
  /\ UNCHANGED <<hist, runFrame>>

(***************************************************************************)
(* Sources typed into "asm".  A branch source holds one jump with a label  *)
(* operand; where the jump and the label are meant to lie follows from     *)
(* the layout of the source and is kept with it (at, target), as is the    *)
(* kind of error planted in a source that has one.                         *)
(***************************************************************************)
Origin == 512
Source(lines, mn, at, target, planted) ==
  [lines |-> lines, mn |-> mn, at |-> at, target |-> target, planted |-> planted]

Nops(n) == [i \in 1..n |-> Line("NOP", <<>>)]
Distance(at, target) == target - (at + 2)
Planted(at, target) ==
  IF Distance(at, target) < -128 \/ Distance(at, target) > 127
    THEN "out-of-range label offset" ELSE "none"

\* The jump first, the label after a .org
ForwardOrg(mn, off) ==
  Source(<<Line(mn, <<TgtRef>>), Org(<<HexOperand(Origin + 2 + off)>>), Label(Tgt),
           Line("HLT", <<>>)>>,
         mn, Origin, Origin + 2 + off, Planted(Origin, Origin + 2 + off))

\* The label first, the jump after a .org
BackwardOrg(mn, off) ==
  Source(<<Label(Tgt), Line("NOP", <<>>), Org(<<ToDecChars(Origin - 2 - off)>>),
           Line(mn, <<Tgt>>)>>,
         mn, Origin - 2 - off, Origin, Planted(Origin - 2 - off, Origin))

\* The jump and the label n instructions apart
ForwardNops(mn, n) ==
  Source(<<Line(mn, <<TgtRef>>)>> \o Nops(n) \o <<Label(Tgt), Line("HLT", <<>>)>>,
         mn, Origin, Origin + 2 + 2 * n, Planted(Origin, Origin + 2 + 2 * n))
BackwardNops(mn, n) ==
  Source(<<Label(Tgt)>> \o Nops(n) \o <<Line(mn, <<Tgt>>)>>,
         mn, Origin + 2 * n, Origin, Planted(Origin + 2 * n, Origin))

ForwardOffsets == {0, 4, 126, 127, 128, 129}
BackwardOffsets == {-4, -127, -128, -129, -130}

\* One good line, then a line with an error of each kind
ErrorSources ==
  { Source(<<Line("NOP", <<>>)>> \o e.lines, "", 0, 0, e.planted) : e \in
    { [lines |-> <<Line("BOGUS", <<>>)>>, planted |-> "unknown mnemonic"],
      [lines |-> <<Line("MOV", <<RegTok(1)>>)>>, planted |-> "wrong operand count"],
      [lines |-> <<Line("RET", <<RegTok(1)>>)>>, planted |-> "wrong operand count"],
      [lines |-> <<Line("MOV", <<RegTok(16), RegTok(1)>>)>>, planted |-> "bad register"],
      [lines |-> <<Line("MOV", <<<<"R", "2", "X">>, RegTok(1)>>)>>,
       planted |-> "bad register"],
      [lines |-> <<Line("JMP", <<TgtRef>>)>>, planted |-> "undefined label"],
      [lines |-> <<Label(Tgt), Line("HLT", <<>>), Label(TgtRef)>>,
       planted |-> "duplicate label"],
      [lines |-> <<Org(<<>>)>>, planted |-> "malformed directive"],
      [lines |-> <<Org(<<<<"z", "z">>>>)>>, planted |-> "malformed directive"],
      [lines |-> <<Data(<<>>)>>, planted |-> "malformed directive"],
      [lines |-> <<Data(<<<<"'", "a", "b", "'">>, <<"$", "1", "2", "3", "4">>>>),
                   Line("LDI0", <<<<"<", "t", "g", "t">>>>), Label(Tgt), Blank,
                   Line("LDI1", <<<<"H", "I", "G", "H", "(", "T", "G", "T", ")">>>>)>>,
       planted |-> "none"] } }

AsmCmd ==
  /\ phase \in {"fresh", "repl"}
  /\ \E source \in
          { ForwardOrg(mn, off) : mn \in Jumps, off \in ForwardOffsets }
            \cup { BackwardOrg(mn, off) : mn \in Jumps, off \in BackwardOffsets }
            \cup { ForwardNops("JNZ", n) : n \in {2, 63, 64} }
            \cup { BackwardNops(mn, n) : mn \in {"JMP", "CALL"}, n \in {0, 63, 64} }
            \cup ErrorSources :
       Done("asm", "part_002", source, assembleProgram(source.lines, pc),
            asmBlock(Cpu, assembleProgram(source.lines, pc)), hostJob.bangs)
  /\ phase' = "ready"
  /\ UNCHANGED <<hist, runFrame>>

\* Binary files: two instructions, and one that reaches past 0x00FF
BinaryFiles == { <<255, 255>>, <<16, 72, 255, 255>>, [i \in 1..256 |-> 1 + (i % 2)] }

\* cpu.loadProgram(program) of runProgramOrAssembly, loadProgramAndInteractive and
\* the REPL's load: the address is left to its default
loadBinary(s, program) == loadProgram(s, program, 0)

LoadCmd ==
  /\ phase \in {"fresh", "repl"}
  /\ \E program \in BinaryFiles :
       Done("load", "", program, <<>>, loadBinary(Cpu, program), hostJob.bangs)
  /\ phase' = "ready"
  /\ UNCHANGED <<hist, runFrame>>

AtCmd ==
  /\ phase = "ready"
  /\ hist = <<>>
  /\ hostJob.kind = "asm"
  /\ \E token \in AtTokens : Becomes(atAddress(Cpu, token))
  /\ phase' = "placed"
  /\ UNCHANGED <<hist, runFrame, hostJob>>

\* "dis addr 1" at the address of the last "@addr instruction"
DisCmd ==
  /\ phase = "ready"
  /\ hist = <<>>
  /\ hostJob.kind = "atasm"
  /\ hostJob.text = ""
  /\ LET addr == parseInt(hostJob.arg.addr, 16)
     IN hostJob' = [hostJob EXCEPT !.text = disassemble(MemRead(memory, addr),
                                                        MemRead(memory, addr + 1))]
  /\ UNCHANGED <<registers, memory, pc, flagZ, flagC, flagN, halted, hasIO, outLog,
                 inputBuffer, faultLog, phase, hist, runFrame>>

\* "step" typed into the REPL
StepCmd ==
  /\ phase \in {"ready", "placed"}
  /\ Len(hist) < MaxSteps
  /\ Becomes(step(Cpu))
  /\ hist' = Append(hist, Cpu)
  /\ phase' = "placed"
  /\ UNCHANGED <<runFrame, hostJob>>

NextHost == BangCmd \/ AtAsmCmd \/ AsmCmd \/ LoadCmd \/ AtCmd \/ DisCmd \/ StepCmd

SpecHost == Init /\ [][NextHost]_vars

(***************************************************************************)
(* Properties of the assembler and the interactive host.                   *)
(***************************************************************************)
\* The opcode table the architecture fixes for the load, move and I/O group
LoadGroupOpcode ==
  [mn \in {"LDI" \o Str(ToDecChars(n)) : n \in 0..15} |->
     16 + (CHOOSE n \in 0..15 : mn = "LDI" \o Str(ToDecChars(n)))] @@
  ("MOV" :> 32) @@ ("SWAP" :> 33) @@ ("LOAD" :> 34) @@ ("STOR" :> 35) @@
  ("LOADZ" :> 36) @@ ("STORZ" :> 37) @@ ("PRINT" :> 112) @@ ("INPUT" :> 113)

\* What the instruction named mn does to machine s
Meaning(mn, s, operand) ==
  LET rx == (operand \div 16) % 16
      ry == operand % 16
  IN CASE mn = "MOV" -> execMOV(s, rx, ry)
       [] mn = "SWAP" -> execSWAP(s, rx, ry)
       [] mn = "LOAD" -> execLOAD(s, rx, ry)
       [] mn = "STOR" -> execSTOR(s, rx, ry)
       [] mn = "LOADZ" -> execLOADZ(s, operand)
       [] mn = "STORZ" -> execSTORZ(s, operand)
       [] mn = "PRINT" -> execPRINT(s, rx)
       [] mn = "INPUT" -> execINPUT(s, rx)
       [] OTHER -> execLDI(s, LoadGroupOpcode[mn] - 16, operand)

\* The mnemonic disassemble shows for an opcode byte
DisMnemonic(opcode) == IF opcode \in DOMAIN disTable THEN disTable[opcode].mn ELSE "???"

AtOrigin == <<"0", "2", "0", "0">>

\* C23: every mnemonic of the load, move and I/O group that the assembler
\* accepts is emitted as its byte of the canonical table, is shown by the
\* disassembler under the same mnemonic, and, stored at PC and stepped, does
\* to the machine what that mnemonic means.
C23_OneOpcodeTable ==
  (/\ hostJob.kind = "atasm"
   /\ hostJob.out.ok
   /\ hostJob.arg.instruction.mn \in DOMAIN LoadGroupOpcode) =>
     /\ hostJob.out.opcode = LoadGroupOpcode[hostJob.arg.instruction.mn]
     /\ DisMnemonic(hostJob.out.opcode) = hostJob.arg.instruction.mn
     /\ (hostJob.arg.addr = AtOrigin /\ Len(hist) >= 1) =>
          Post(1) = Meaning(hostJob.arg.instruction.mn, Pre(1), hostJob.out.operand)

\* Whether the jump named mn is taken in machine s
BranchTaken(mn, s) ==
  CASE mn = "JZ" -> s.flagZ [] mn = "JNZ" -> ~s.flagZ
    [] mn = "JC" -> s.flagC [] mn = "JNC" -> ~s.flagC
    [] mn = "JN" -> s.flagN [] OTHER -> TRUE

\* Step k runs the jump that the last asm command assembled at address at
RunsJumpAt(k, at) ==
  /\ Fetched(k)
  /\ Pre(k).pc = at
  /\ MemRead(Pre(k).memory, at) = MemRead(hostJob.after.memory, at)
  /\ MemRead(Pre(k).memory, at + 1) = MemRead(hostJob.after.memory, at + 1)

\* C24: a jump (JMP, JZ, JNZ, JC, JNC, JN, CALL) at address a whose operand is a
\* label defined at address L, before or after it: when L - (a + 2) lies in
\* -128..127 the program assembles and the jump, when taken, sets PC to L;
\* otherwise assembleProgram throws an assembly error and returns no bytes.
C24_LabelBranch ==
  (/\ hostJob.kind = "asm"
   /\ hostJob.arg.mn \in Jumps
   /\ hostJob.before.pc = Origin) =>
     IF Distance(hostJob.arg.at, hostJob.arg.target) \in -128..127
       THEN /\ hostJob.out.ok
            /\ \A k \in Steps :
                 (RunsJumpAt(k, hostJob.arg.at) /\ BranchTaken(hostJob.arg.mn, Pre(k)))
                   => Post(k).pc = hostJob.arg.target
       ELSE /\ ~hostJob.out.ok
            /\ hostJob.out.error.name = "AssemblerError"
            /\ "bytes" \notin DOMAIN hostJob.out
            /\ hostJob.after = hostJob.before

\* A taken JN whose label lies 128 bytes before the next instruction
C24_Witness ==
  /\ hostJob.kind = "asm"
  /\ hostJob.out.ok
  /\ hostJob.arg.mn = "JN"
  /\ Distance(hostJob.arg.at, hostJob.arg.target) = -128
  /\ \E k \in Steps :
       /\ RunsJumpAt(k, hostJob.arg.at)
       /\ BranchTaken(hostJob.arg.mn, Pre(k))
       /\ Post(k).pc = hostJob.arg.target
       /\ Post(k).pc # (Pre(k).pc + 2) % 65536

\* The canonical text of an operand: a register as R<n>, an immediate as $HH
CanonicalOperand(kind, token) ==
  IF kind = "reg" THEN "R" \o Str(ToDecChars(parseRegister(token).value))
  ELSE "$" \o Str(toHex(parseImmediate(toUpperCase(token), FALSE).value % 256, 2))

\* The canonical text of an instruction
CanonicalText(instruction) ==
  LET kinds == OperandKinds(asmTable[instruction.mn].shape)
  IN CASE Len(kinds) = 0 -> instruction.mn
       [] Len(kinds) = 1 ->
            instruction.mn \o " " \o CanonicalOperand(kinds[1], instruction.ops[1])
       [] OTHER ->
            instruction.mn \o " " \o CanonicalOperand(kinds[1], instruction.ops[1])
              \o ", " \o CanonicalOperand(kinds[2], instruction.ops[2])

\* C25: what disassemble prints for an assembled instruction is the canonical
\* text of that instruction: the mnemonic, registers as R<n>, and every
\* immediate, jump offsets included, as $HH.
C25_RoundTrip ==
  (/\ hostJob.kind = "atasm"
   /\ hostJob.build = "part_002"
   /\ hostJob.out.ok
   /\ hostJob.text # "") =>
     hostJob.text = CanonicalText(hostJob.arg.instruction)

\* C26: a binary file loaded without an address lies at PC onwards (0x0200 on
\* a fresh machine), and the cells 0x00FC-0x00FF keep their contents.
C26_BinaryLoadedAtPc ==
  hostJob.kind = "load" =>
    /\ \A i \in 1..Len(hostJob.arg) :
         MemRead(hostJob.after.memory, hostJob.before.pc + i - 1) = hostJob.arg[i]
    /\ \A a \in 252..255 :
         MemRead(hostJob.after.memory, a) = MemRead(hostJob.before.memory, a)

\* C27: a source with an erroneous line yields no bytes, and a command whose
\* assembly failed (asm, @addr instruction, !instruction) leaves the machine as
\* it was.
C27_ErrorsAbortAssembly ==
  /\ (hostJob.kind = "asm" /\ hostJob.arg.planted # "none") =>
       /\ ~hostJob.out.ok
       /\ "bytes" \notin DOMAIN hostJob.out
       /\ hostJob.after = hostJob.before
  /\ (hostJob.kind \in {"bang", "atasm"} /\ ~hostJob.out.ok) =>
       hostJob.after = hostJob.before

\* C28: an error thrown while a multi-line source is assembled carries a
\* message and the number of the offending line.
C28_ErrorCarriesLine ==
  (hostJob.kind = "asm" /\ ~hostJob.out.ok) =>
    /\ "message" \in DOMAIN hostJob.out.error
    /\ "line" \in DOMAIN hostJob.out.error


(***************************************************************************)
(* The single-step test harness.  A test is  preconds ; instructions ;     *)
(* postconds.  A condition part NAME:VALUE is kept as its name ("R", "PC", *)
(* "Z", "C", "N", "M"), the number in the name (register, address) and the *)
(* number parseInt read in the value.  A Map is the sequence of its        *)
(* <<key, value>> entries in insertion order.                              *)
(***************************************************************************)
Part(name, key, value) == [name |-> name, key |-> key, value |-> value]

\* Map.set(key, value): a key that is present keeps its place
mapSet(map, key, value) ==
  IF \E i \in DOMAIN map : map[i][1] = key
  THEN [i \in DOMAIN map |-> IF map[i][1] = key THEN <<key, value>> ELSE map[i]]
  ELSE Append(map, <<key, value>>)

\* Map.get(key), or absent when the map has no such key
mapGet(map, key, absent) ==
  IF \E i \in DOMAIN map : map[i][1] = key
  THEN map[CHOOSE i \in DOMAIN map : map[i][1] = key][2]
  ELSE absent

NoConditions == [ok |-> TRUE, registers |-> <<>>, flags |-> <<>>, memory |-> <<>>]
InvalidCondition == [ok |-> FALSE, registers |-> <<>>, flags |-> <<>>, memory |-> <<>>]

\* The body of parseConditions' loop; key -1 of registers is the PC, whose
\* value is not masked
parsePart(c, part) ==
  CASE part.name = "M" ->
         IF part.key > 65535 THEN InvalidCondition
         ELSE [c EXCEPT !.memory = mapSet(@, part.key, part.value % 256)]
    [] part.name = "R" ->
         IF part.key > 15 THEN InvalidCondition
         ELSE [c EXCEPT !.registers = mapSet(@, part.key, part.value % 256)]
    [] part.name \in {"Z", "C", "N"} ->
         IF part.value \notin {0, 1} THEN InvalidCondition
         ELSE [c EXCEPT !.flags = mapSet(@, part.name, part.value = 1)]
    [] part.name = "PC" -> [c EXCEPT !.registers = mapSet(@, -1, part.value)]
    [] OTHER -> InvalidCondition

RECURSIVE parseConditions(_, _)
parseConditions(parts, c) ==
  IF parts = <<>> \/ ~c.ok THEN c
  ELSE parseConditions(Tail(parts), parsePart(c, Head(parts)))

\* applyConditions on the three maps
applyMaps(s, c) ==
  [s EXCEPT !.pc = mapGet(c.registers, -1, @),
            !.registers = [r \in Regs |-> mapGet(c.registers, r, @[r])],
            !.flagZ = mapGet(c.flags, "Z", @),
            !.flagC = mapGet(c.flags, "C", @),
            !.flagN = mapGet(c.flags, "N", @),
            !.memory = MemSet(@, [a \in {c.memory[i][1] : i \in DOMAIN c.memory} |->
                                    mapGet(c.memory, a, 0)])]

\* What the machine holds under a key of the maps
actualRegister(s, key) == IF key = -1 THEN s.pc ELSE s.registers[key]
actualFlag(s, key) ==
  CASE key = "Z" -> s.flagZ [] key = "C" -> s.flagC [] OTHER -> s.flagN

\* The errors verifyConditions pushes for one map, in the map's order
mismatches(kind, map, actual) ==
  LET wrong == SelectSeq([i \in DOMAIN map |-> <<kind, map[i][1], map[i][2], actual[i]>>],
                         LAMBDA e : e[4] # e[3])
  IN wrong

Verdict(errors) == [passed |-> errors = <<>>, errors |-> errors]

\* verifyConditions that stops at the first mismatch
verifyConditions_FirstOnly(s, c) ==
  LET errors ==
        mismatches("R", c.registers,
                   [i \in DOMAIN c.registers |-> actualRegister(s, c.registers[i][1])])
        \o mismatches("F", c.flags,
                      [i \in DOMAIN c.flags |-> actualFlag(s, c.flags[i][1])])
        \o mismatches("M", c.memory,
                      [i \in DOMAIN c.memory |-> MemRead(s.memory, c.memory[i][1])])
  IN Verdict(IF errors = <<>> THEN errors ELSE <<errors[1]>>)

\* verifyConditions: registers and PC, then flags, then memory
verifyConditions(s, c) ==
  Verdict(mismatches("R", c.registers,
                     [i \in DOMAIN c.registers |-> actualRegister(s, c.registers[i][1])])
          \o mismatches("F", c.flags,
                        [i \in DOMAIN c.flags |-> actualFlag(s, c.flags[i][1])])
          \o mismatches("M", c.memory,
                        [i \in DOMAIN c.memory |-> MemRead(s.memory, c.memory[i][1])]))

\* createCPU: a new CPU with the character callbacks installed
createCPU == [Fresh EXCEPT !.hasIO = TRUE]

\* The loop that stores each assembled instruction at currentAddr
RECURSIVE storeLoop(_, _, _)
storeLoop(m, assembled, currentAddr) ==
  IF assembled = <<>> THEN m
  ELSE storeLoop(storeAssembled(m, currentAddr, Head(assembled)), Tail(assembled),
                 currentAddr + Head(assembled).length)

\* for (i = 0; i < instructions.length; i++) cpu.step()
RECURSIVE stepLoop(_, _, _)
stepLoop(s, i, n) == IF i < n THEN stepLoop(step(s), i + 1, n) ELSE s

TestError(s) == [passed |-> FALSE, error |-> TRUE, errors |-> <<>>, cpu |-> s]
TestResult(s, result) ==
  [passed |-> result.passed, error |-> FALSE, errors |-> result.errors, cpu |-> s]

\* runSingleStepTest once the conditions are parsed and the instructions
\* assembled; whatever throws makes the test fail
testBody(s, preconditions, postconditions, assembled) ==
  IF ~preconditions.ok \/ ~postconditions.ok THEN TestError(s)
  ELSE IF \E i \in DOMAIN assembled : ~assembled[i].ok
       THEN TestError(applyMaps(createCPU, preconditions))
  ELSE LET tempAddr == 256
           cpu0 == applyMaps(createCPU, preconditions)
           cpu1 == [cpu0 EXCEPT !.memory = storeLoop(@, assembled, tempAddr),
                                !.pc = tempAddr]
           cpu2 == stepLoop(cpu1, 0, Len(assembled))
       IN TestResult(cpu2, verifyConditions(cpu2, postconditions))

runSingleStepTest(s, build, test) ==
  testBody(s, parseConditions(test.pre, NoConditions),
           parseConditions(test.post, NoConditions),
           [i \in DOMAIN test.instructions |-> assembleOf(build, test.instructions[i])])

\* Tests: the conditions and instructions of the documented examples, parts
\* that repeat a name, values wider than the field, and malformed parts
PreSamples ==
  { <<>>,
    <<Part("R", 0, 5), Part("R", 1, 0)>>,
    <<Part("R", 0, 18), Part("R", 1, 52), Part("R", 2, 86), Part("R", 3, 120)>>,
    <<Part("PC", 0, 768), Part("Z", 0, 1), Part("M", 256, 255), Part("M", 254, 3),
      Part("M", 255, 0), Part("M", 768, 255)>>,
    <<Part("R", 0, 511), Part("R", 1, 7), Part("R", 0, 2), Part("C", 0, 1)>>,
    <<Part("R", 16, 0)>>,
    <<Part("R", 1, 1), Part("Z", 0, 2)>> }

InstructionSamples ==
  { <<Instr("NOP", <<>>)>>,
    <<Instr("DIV", <<RegTok(0), RegTok(1)>>)>>,
    <<Instr("ADD", <<RegTok(1), RegTok(3)>>), Instr("ADC", <<RegTok(0), RegTok(2)>>)>>,
    <<Instr("INC", <<RegTok(0)>>), Instr("INC", <<RegTok(0)>>), Instr("DEC", <<RegTok(1)>>)>>,
    <<Instr("HLT", <<>>), Instr("INC", <<RegTok(0)>>)>>,
    <<Instr("JMP", <<<<"2">>>>), Instr("INC", <<RegTok(0)>>), Instr("INC", <<RegTok(1)>>)>>,
    <<Instr("LDI16", <<RegTok(0), RegTok(1), HexOperand(4660)>>), Instr("INC", <<RegTok(2)>>)>>,
    <<Instr("INC", <<RegTok(0)>>), Instr("BOGUS", <<>>)>>,
    <<Instr("", <<>>)>> }

PostSamples ==
  { <<>>,
    <<Part("R", 0, 2), Part("M", 252, 1), Part("M", 253, 0), Part("PC", 0, 65534)>>,
    <<Part("R", 0, 104), Part("R", 1, 172), Part("C", 0, 0)>>,
    <<Part("R", 0, 0), Part("Z", 0, 0), Part("PC", 0, 258)>>,
    <<Part("R", 0, 1), Part("R", 1, 1), Part("Z", 0, 1), Part("N", 0, 1),
      Part("M", 256, 0), Part("M", 768, 255)>>,
    <<Part("PC", 0, 65794)>>,
    <<Part("R", 0, 1), Part("R", 0, 0), Part("R", 2, 256)>>,
    <<Part("M", 65536, 0)>>,
    <<Part("X", 0, 0)>> }

Test(pre, instructions, post) == [pre |-> pre, instructions |-> instructions, post |-> post]

\* oper8 -ss "<testString>": one test, then the process exits
TestCmd ==
  /\ phase = "fresh"
  /\ \E pre \in PreSamples, instructions \in InstructionSamples, post \in PostSamples,
        build \in Builds :
       Done("test", build, Test(pre, instructions, post),
            runSingleStepTest(Cpu, build, Test(pre, instructions, post)),
            Cpu, hostJob.bangs)
  /\ phase' = "tested"
  /\ UNCHANGED <<hist, runFrame>>

NextTest == TestCmd
SpecTest == Init /\ [][NextTest]_vars

(***************************************************************************)
(* The single-step test, stated from its text: the machine the test        *)
(* describes, and the postconditions that machine leaves unmet.            *)
(***************************************************************************)
\* The value of the last part of parts that names (name, key)
LastValue(parts, name, key, absent) ==
  LET at == {i \in DOMAIN parts : parts[i].name = name /\ parts[i].key = key}
  IN IF at = {} THEN absent
     ELSE parts[CHOOSE i \in at : \A j \in at : j <= i].value

\* The bytes of the instructions, one after the other
RECURSIVE InstructionBytes(_)
InstructionBytes(assembled) ==
  IF assembled = <<>> THEN <<>>
  ELSE <<Head(assembled).opcode, Head(assembled).operand>> \o Head(assembled).immediate
         \o InstructionBytes(Tail(assembled))

\* A freshly reset machine modified by the preconditions, the instruction
\* bytes from 0x0100 on, PC = 0x0100
TestStart(pre, bytes) ==
  LET poked == {pre[i].key : i \in {j \in DOMAIN pre : pre[j].name = "M"}}
      code == {256 + i - 1 : i \in DOMAIN bytes}
  IN [createCPU EXCEPT
        !.registers = [r \in Regs |-> LastValue(pre, "R", r, @[r]) % 256],
        !.flagZ = LastValue(pre, "Z", 0, IF @ THEN 1 ELSE 0) = 1,
        !.flagC = LastValue(pre, "C", 0, IF @ THEN 1 ELSE 0) = 1,
        !.flagN = LastValue(pre, "N", 0, IF @ THEN 1 ELSE 0) = 1,
        !.memory = MemSet(@, [a \in poked \cup code |->
                                IF a \in code THEN bytes[a - 255]
                                ELSE LastValue(pre, "M", a, 0) % 256]),
        !.pc = 256]

\* The postconditions machine s does not satisfy, as <<kind, key, expected>>
Unmet(s, post) ==
  { <<"R", e[1], e[2]>> :
      e \in {x \in {post.registers[i] : i \in DOMAIN post.registers} :
               (IF x[1] = -1 THEN s.pc ELSE s.registers[x[1]]) # x[2]} }
  \cup
  { <<"F", e[1], e[2]>> :
      e \in {x \in {post.flags[i] : i \in DOMAIN post.flags} :
               (IF x[1] = "Z" THEN s.flagZ ELSE IF x[1] = "C" THEN s.flagC ELSE s.flagN)
                 # x[2]} }
  \cup
  { <<"M", e[1], e[2]>> :
      e \in {x \in {post.memory[i] : i \in DOMAIN post.memory} :
               MemRead(s.memory, x[1]) # x[2]} }

\* The errors a test reported, as <<kind, key, expected>>
Reported(errors) == {<<errors[i][1], errors[i][2], errors[i][3]>> : i \in DOMAIN errors}

TestJudged(out, unmet) ==
  /\ out.passed <=> unmet = {}
  /\ Reported(out.errors) = unmet
  /\ Len(out.errors) = Cardinality(unmet)

FlagFreeOpcodes == {0} \cup (16..31) \cup (32..37) \cup (80..89) \cup {96, 97, 112, 255}

\* C36: NOP, LDI0..LDI15, MOV, SWAP, LOAD, STOR, LOADZ, STORZ, the jumps, CALL,
\* CALLL, RET, PUSH, POP, PRINT and HLT, and every fault entry, leave Z, C and N
\* exactly as they were before the step.
C36_FlagsPersist ==
  \A k \in Steps :
    ((Fetched(k) /\ Opcode(k) \in FlagFreeOpcodes) \/ Faulted(k)) =>
      SameFlags(Pre(k), Post(k))

\* LDIn of 0 with Z clear and N set
C36_Witness ==
  \E k \in Steps :
    /\ Fetched(k) /\ Opcode(k) \in 16..31 /\ Operand(k) = 0
    /\ ~Pre(k).flagZ /\ Pre(k).flagN
    /\ Post(k).registers[Opcode(k) - 16] = 0

\* C37: PUSH rx,ry with n registers in its range (index wrapping 15 -> 0) writes
\* exactly the n bytes at (SP-1), (SP-2), ..., (SP-n) mod 65536, the first
\* register rx at the highest address, then sets R14:R15 to (SP-n) mod 65536 and
\* advances PC by 2; no other memory byte, no other register and no flag changes.
C37_PushFrame ==
  \A k \in Steps :
    (Fetched(k) /\ Opcode(k) = 96) =>
      LET sp == StackPointer(Pre(k))
          n == ((OpRy(k) - OpRx(k)) % 16) + 1
      IN /\ \A d \in 0..(n - 1) :
              MemRead(Post(k).memory, (sp - 1 - d) % 65536)
                = Pre(k).registers[(OpRx(k) + d) % 16]
         /\ SameMemoryExcept(Pre(k).memory, Post(k).memory,
                             {(sp - d) % 65536 : d \in 1..n})
         /\ StackPointer(Post(k)) = (sp - n) % 65536
         /\ \A r \in Regs \ {14, 15} : Post(k).registers[r] = Pre(k).registers[r]
         /\ Post(k).pc = Pre(k).pc + 2
         /\ SameFlags(Pre(k), Post(k))
         /\ ~Post(k).halted

\* PUSH R14,R1 from SP = 2: four bytes at 1, 0, 0xFFFF and 0xFFFE
C37_Witness ==
  \E k \in Steps :
    /\ Fetched(k) /\ Opcode(k) = 96
    /\ OpRx(k) = 14 /\ OpRy(k) = 1
    /\ StackPointer(Pre(k)) = 2
    /\ StackPointer(Post(k)) = 65534
    /\ MemRead(Post(k).memory, 1) = Pre(k).registers[14]
    /\ MemRead(Post(k).memory, 65534) = Pre(k).registers[1]

\* C39: in every state reachable from reset by step calls Z and N are never
\* both true: they are not after construction, and no step call makes them
\* both true from a state where they were not.
C39_ZeroNotNegative ==
  /\ (phase = "fresh" => ~(flagZ /\ flagN))
  /\ \A k \in Steps :
       ~(Pre(k).flagZ /\ Pre(k).flagN) => ~(Post(k).flagZ /\ Post(k).flagN)

\* CMP of a register holding at least 128 with itself, entered with N set and Z
\* clear: the step sets Z and clears N
C39_Witness ==
  \E k \in Steps :
    /\ Fetched(k) /\ Opcode(k) = 54 /\ OpRx(k) = OpRy(k)
    /\ Pre(k).registers[OpRx(k)] >= 128
    /\ Pre(k).flagN /\ ~Pre(k).flagZ
    /\ Post(k).flagZ /\ ~Post(k).flagN

(***************************************************************************)
(* A fault vector that holds an odd address                                *)
(***************************************************************************)
OddVector(m) == WordAt(m, 254) % 2 = 1

\* The machine has faulted and sits on the odd address its vector holds
Trapped == faultLog # <<>> /\ OddVector(memory) /\ pc = WordAt(memory, 254)

C40_Entered ==
  (faultLog' # faultLog /\ OddVector(memory')) =>
    (pc' = WordAt(memory', 254) /\ ~halted')

C40_Stays ==
  Trapped =>
    /\ Trapped' /\ pc' = pc /\ ~halted'
    /\ (phase = "running" /\ runFrame.steps < runFrame.maxSteps) =>
         (faultLog' = Append(faultLog, 3) /\ runFrame'.steps = runFrame.steps + 1)

C40_Returned ==
  (phase = "returned" /\ Trapped) => (~halted /\ runFrame.steps = runFrame.maxSteps)

\* C40: if the fault vector at 0x00FE-0x00FF holds an odd address, then after any
\* fault every subsequent step raises fault 0x03 again, PC stays at that odd
\* address, halted never becomes true, and run(maxSteps) returns maxSteps.
C40_OddVectorTrap ==
  [][C40_Entered /\ C40_Stays]_vars /\ []C40_Returned

\* run(3) of DIV by zero under the vector 0x0301 has returned 3: the fault of
\* the DIV, then two misalignment faults at 0x0301
C40_Witness ==
  /\ phase = "returned"
  /\ pc = 769 /\ ~halted
  /\ faultLog = <<2, 3, 3>>
  /\ runFrame.maxSteps = 3 /\ runFrame.steps = 3

(***************************************************************************)
(* The REPL's run command                                                  *)
(***************************************************************************)
\* Programs that halt, and programs that never do
HaltingPrograms == {HelloProgram, MulProgram, <<255, 255>>, <<1, 1>>, <<56, 1>>}
LoopingPrograms == {<<80, 254>>, <<0, 0, 80, 252>>}

\* What is typed after "run": nothing, or one argument
RunArgs == { <<>>, <<<<"0">>>>, <<<<"2">>>>, <<<<"3">>>>, <<<<"z", "z">>>> }

\* A program is put in memory with PC on it (load, poke, "@addr")
ReplSetup ==
  /\ phase = "fresh"
  /\ \E p \in HaltingPrograms \cup LoopingPrograms, at \in {512, 65520} :
       Done("placed", "", p, <<>>,
            [loadProgram([Cpu EXCEPT !.hasIO = TRUE], p, at) EXCEPT !.pc = at],
            hostJob.bangs)
  /\ phase' = "repl"
  /\ UNCHANGED <<hist, runFrame>>

\* args[1] ? parseInt(args[1]) : 100000
runArgument(args) == IF args = <<>> THEN 100000 ELSE parseIntAuto(args[1])

\* case 'run': cpu.halted = false, then cpu.run(maxSteps) is entered.  A run
\* with the default budget is followed on the programs that halt.
ReplRun ==
  /\ phase \in {"repl", "returned"}
  /\ runFrame.runs < MaxRuns
  /\ \E args \in RunArgs :
       /\ (args = <<>> => hostJob.arg \in HaltingPrograms)
       /\ Becomes([Cpu EXCEPT !.halted = FALSE])
       /\ hostJob' = [hostJob EXCEPT !.kind = "run", !.out = args]
       /\ runFrame' = [maxSteps |-> runArgument(args), steps |-> 0, calls |-> 0,
                       runs |-> runFrame.runs + 1,
                       start |-> [Cpu EXCEPT !.halted = FALSE]]
  /\ phase' = "running"
  /\ UNCHANGED hist

NextRepl == ReplSetup \/ ReplRun \/ RunStep \/ RunExhausted

SpecRepl == Init /\ [][NextRepl]_vars

\* C33: in the REPL, "run 0" runs the CPU with no step limit, until the machine
\* halts, whereas "run" with no argument stops after at most 100000 steps.
C33_RunZeroUnlimited ==
  (phase = "returned" /\ hostJob.kind = "run") =>
    /\ (hostJob.out = <<<<"0">>>> => halted)
    /\ (hostJob.out = <<>> => runFrame.steps <= 100000)

(***************************************************************************)
(* Assembly files: assembleFile, and the load of its bytes at startAddr    *)
(***************************************************************************)
\* assembleFile, the loop that looks for the first ".org" with one argument
firstOrg(lines) ==
  LET orgs == {i \in DOMAIN lines : lines[i].kind = "org" /\ Len(lines[i].args) = 1}
  IN IF orgs = {} THEN <<>>
     ELSE lines[CHOOSE i \in orgs : \A j \in orgs : i <= j].args[1]

\* assembleFile once the start address is known
assembledFile(startAddr, program) ==
  IF ~program.ok THEN program
  ELSE [ok |-> TRUE, bytes |-> program.bytes, startAddr |-> startAddr]

\* assembleFile once the argument of the first ".org" is parsed
fileFrom(lines, parsed) ==
  IF ~parsed.ok THEN parsed
  ELSE assembledFile(parsed.value, assembleProgram(lines, parsed.value))

\* assembleFile(content, defaultStartAddr)
assembleFile(lines, defaultStartAddr) ==
  fileFrom(lines, IF firstOrg(lines) = <<>> THEN Number(defaultStartAddr)
                  ELSE parseImmediate(firstOrg(lines), FALSE))

\* cpu.memory.set(program, startAddr); cpu.pc = startAddr
loadAssembled(s, file) ==
  IF ~file.ok THEN s
  ELSE [s EXCEPT !.memory = MemSet(@, [a \in {file.startAddr + i - 1 : i \in DOMAIN file.bytes}
                                        |-> file.bytes[a - file.startAddr + 1]]),
                 !.pc = file.startAddr]

\* A jump or CALL over n bytes of .data to the subroutine behind them
OverData(mn, n) ==
  <<Line(mn, <<TgtRef>>), Line("HLT", <<>>), Label(<<"m", "s", "g">>),
    Data([i \in 1..n |-> HexOperand(64 + i)]), Label(Tgt), Line("INC", <<RegTok(0)>>),
    Line("RET", <<>>)>>

\* Sources with .org directives: none, one, forward, backward, after code
OrgSources ==
  { <<Line("NOP", <<>>), Line("HLT", <<>>)>>,
    <<Org(<<HexOperand(768)>>), Line("NOP", <<>>), Line("HLT", <<>>)>>,
    <<Org(<<<<"5", "1", "4">>>>), Line("INC", <<RegTok(1)>>), Line("HLT", <<>>)>>,
    <<Org(<<HexOperand(512)>>), Line("NOP", <<>>), Org(<<HexOperand(528)>>),
      Line("HLT", <<>>)>>,
    <<Org(<<HexOperand(512)>>), Line("JMP", <<TgtRef>>), Org(<<HexOperand(544)>>),
      Label(Tgt), Line("HLT", <<>>), Org(<<HexOperand(528)>>), Data(<<HexOperand(1)>>)>>,
    <<Line("NOP", <<>>), Org(<<HexOperand(768)>>), Line("HLT", <<>>)>>,
    <<Org(<<HexOperand(768)>>), Line("NOP", <<>>), Org(<<HexOperand(512)>>),
      Line("HLT", <<>>)>>,
    <<Org(<<<<"z", "z">>>>), Line("NOP", <<>>)>>,
    <<Data(<<<<"'", "7", " ", "x", "'">>, HexOperand(0)>>), Line("HLT", <<>>)>> }

\* oper8 <file.asm>: the file is assembled and loaded into a new machine
FileCmd ==
  /\ phase = "fresh"
  /\ \E lines \in { OverData(mn, n) : mn \in {"CALL", "JMP", "JNZ"}, n \in 1..5 }
                     \cup OrgSources :
       Done("file", "part_002", lines, assembleFile(lines, 512),
            loadAssembled(createCPU, assembleFile(lines, 512)), hostJob.bangs)
  /\ phase' = "ready"
  /\ UNCHANGED <<hist, runFrame>>

NextFile == FileCmd \/ StepCmd

SpecFile == Init /\ [][NextFile]_vars

\* What pass 1 recorded for the file that was loaded
FileItems == firstPass(hostJob.arg, hostJob.out.startAddr, NoLabels, <<>>).items
FileLoaded == hostJob.kind = "file" /\ hostJob.out.ok

\* C34: for any source accepted by assembleProgram, with .data directives of any
\* byte length placed before code, every instruction is assigned an even
\* address, so a branch or CALL to a label that precedes an instruction leaves
\* PC even and raises no MISALIGNED_PC fault.
C34_InstructionsEven ==
  FileLoaded =>
    /\ \A i \in DOMAIN FileItems :
         FileItems[i].type = "instruction" => FileItems[i].addr % 2 = 0
    /\ \A k \in Steps :
         (Fetched(k) /\ Opcode(k) \in 80..88) =>
           (Post(k).pc % 2 = 0 /\ ~(k + 1 \in Steps /\ Faulted(k + 1)))

\* The bytes pass 1 and pass 2 gave an item
ItemBytes(item) ==
  IF item.type = "data" THEN item.data
  ELSE LET a == assembleLine(item.line, firstPass(hostJob.arg, hostJob.out.startAddr,
                                                  NoLabels, <<>>).labels, item.addr)
       IN <<a.opcode, a.operand>>

\* C35: for any source with any number and order of .org directives, after the
\* bytes returned by assembleFile are copied into memory at its startAddr, every
\* assembled instruction and data byte resides at the address pass 1 recorded
\* for it, and every byte in a gap between segments is zero.
C35_BytesAtRecordedAddress ==
  (FileLoaded /\ hist = <<>>) =>
    LET at == hostJob.out.startAddr
        covered == UNION { {FileItems[i].addr + j - 1 : j \in DOMAIN ItemBytes(FileItems[i])} :
                             i \in DOMAIN FileItems }
    IN /\ \A i \in DOMAIN FileItems :
            \A j \in DOMAIN ItemBytes(FileItems[i]) :
              MemRead(memory, FileItems[i].addr + j - 1) = ItemBytes(FileItems[i])[j]
       /\ \A a \in at..(at + Len(hostJob.out.bytes) - 1) :
            a \notin covered => MemRead(memory, a) = 0

(***************************************************************************)
(* tests/hexdump.asm: the conversion of one byte to two hexadecimal digits *)
(***************************************************************************)
\* Lines 12-44 of hexdump.asm (dump_loop up to the second PRINT), entered with
\* R0:R1 = 0x0280, and a HLT behind them
HexdumpLines ==
  <<Org(<<<<"0", "x", "2", "0", "0">>>>),
    Line("LDI0", <<<<"0", "x", "0", "2">>>>),
    Line("LDI1", <<<<"0", "x", "8", "0">>>>),
    Label(<<"d", "u", "m", "p", "_", "l", "o", "o", "p">>),
    Line("LOAD", <<<<"R", "3">>, <<"R", "0">>>>),
    Line("MOV", <<<<"R", "4">>, <<"R", "3">>>>),
    Line("LDI5", <<<<"1", "6">>>>),
    Line("DIV", <<<<"R", "4">>, <<"R", "5">>>>),
    Line("LDI6", <<<<"9">>>>),
    Line("CMP", <<<<"R", "4">>, <<"R", "6">>>>),
    Line("JC", <<<<"d", "i", "g", "i", "t", "1">>>>),
    Line("LDI6", <<<<"5", "5">>>>),
    Line("ADD", <<<<"R", "4">>, <<"R", "6">>>>),
    Line("JMP", <<<<"p", "r", "i", "n", "t", "1">>>>),
    Label(<<"d", "i", "g", "i", "t", "1">>),
    Line("LDI6", <<<<"'", "0", "'">>>>),
    Line("ADD", <<<<"R", "4">>, <<"R", "6">>>>),
    Label(<<"p", "r", "i", "n", "t", "1">>),
    Line("PRINT", <<<<"R", "4">>>>),
    Line("LDI6", <<<<"9">>>>),
    Line("CMP", <<<<"R", "5">>, <<"R", "6">>>>),
    Line("JC", <<<<"d", "i", "g", "i", "t", "2">>>>),
    Line("LDI6", <<<<"5", "5">>>>),
    Line("ADD", <<<<"R", "5">>, <<"R", "6">>>>),
    Line("JMP", <<<<"p", "r", "i", "n", "t", "2">>>>),
    Label(<<"d", "i", "g", "i", "t", "2">>),
    Line("LDI6", <<<<"'", "0", "'">>>>),
    Line("ADD", <<<<"R", "5">>, <<"R", "6">>>>),
    Label(<<"p", "r", "i", "n", "t", "2">>),
    Line("PRINT", <<<<"R", "5">>>>),
    Line("HLT", <<>>)>>

\* oper8 hexdump.asm with the byte b at 0x0280: assembled, loaded, run entered
HexCmd ==
  /\ phase = "fresh"
  /\ \E b \in Byte :
       /\ Done("hexdump", "part_002", b, assembleFile(HexdumpLines, 512),
               [loadAssembled(createCPU, assembleFile(HexdumpLines, 512))
                  EXCEPT !.memory = MemWrite(@, 640, b)],
               hostJob.bangs)
       /\ runFrame' = [maxSteps |-> 100000, steps |-> 0, calls |-> 0, runs |-> 1,
                       start |-> Cpu]
  /\ phase' = "running"
  /\ UNCHANGED hist

NextHex == HexCmd \/ RunStep

SpecHex == Init /\ [][NextHex]_vars

\* The ASCII code of the hexadecimal digit of a nibble
HexDigit(n) == IF n < 10 THEN 48 + n ELSE 55 + n

\* C38: for every byte value the hexdump conversion sequence (DIV by 16, then for
\* each nibble LDI 9; CMP nibble,9; JC digit, adding '0' on the digit path and 55
\* otherwise) passes to PRINT the ASCII hexadecimal digit of that nibble: '0'..'9'
\* for 0..9 and 'A'..'F' for 10..15.
C38_HexDigits ==
  (hostJob.kind = "hexdump" /\ phase = "returned") =>
    outLog = <<HexDigit(hostJob.arg \div 16), HexDigit(hostJob.arg % 16)>>

(***************************************************************************)
(* Two machines of one process.  Both come from createCPU, whose           *)
(* onCharInput closes over the module's one inputBuffer.  The first        *)
(* machine is the variables; the second is kept in hostJob.out.machine,    *)
(* and hostJob.out.was is the second machine before the last step.         *)
(***************************************************************************)
\* Programs that read input, print, count and store
PairPrograms ==
  { <<113, 0, 112, 0, 255, 255>>,
    <<113, 0, 113, 16, 255, 255>>,
    <<52, 16, 35, 32, 255, 255>> }

\* What stdin has put in inputBuffer when the machines start
PairInputs == { <<>>, <<65>>, <<65, 66>> }

\* The fields of class CPU
Fields(s) == <<s.registers, s.memory, s.pc, s.flagZ, s.flagC, s.flagN, s.halted>>

\* createCPU twice, a program loaded in each
PairSetup ==
  /\ phase = "fresh"
  /\ \E p1 \in PairPrograms, p2 \in PairPrograms, inp \in PairInputs :
       LET second == loadProgram(createCPU, p2, Origin)
       IN Done("pair", "part_003", "none", [machine |-> second, was |-> second],
               [loadProgram(createCPU, p1, Origin) EXCEPT !.inputBuffer = inp],
               hostJob.bangs)
  /\ phase' = "pair"
  /\ UNCHANGED <<hist, runFrame>>

\* first.step()
PairStepFirst ==
  /\ phase = "pair"
  /\ Done("pair", "part_003", "first",
          [machine |-> hostJob.out.machine, was |-> hostJob.out.machine],
          step(Cpu), hostJob.bangs)
  /\ UNCHANGED <<phase, hist, runFrame>>

\* second.step(): its onCharInput shifts the same inputBuffer
PairStepSecond ==
  /\ phase = "pair"
  /\ LET t == step([hostJob.out.machine EXCEPT !.inputBuffer = inputBuffer])
     IN Done("pair", "part_003", "second",
             [machine |-> [t EXCEPT !.inputBuffer = <<>>], was |-> hostJob.out.machine],
             [Cpu EXCEPT !.inputBuffer = t.inputBuffer], hostJob.bangs)
  /\ UNCHANGED <<phase, hist, runFrame>>

NextPair == PairSetup \/ PairStepFirst \/ PairStepSecond

SpecPair == Init /\ [][NextPair]_vars

\* C32: of two machines created in one process, a step of one leaves the other's
\* registers, memory, PC, flags and halted indicator unchanged and leaves unchanged
\* the sequence of bytes the other machine's INPUT instructions will receive.
C32_MachinesIndependent ==
  /\ (hostJob.kind = "pair" /\ hostJob.arg = "second") =>
       /\ Fields(Cpu) = Fields(hostJob.before)
       /\ inputBuffer = hostJob.before.inputBuffer
  /\ (hostJob.kind = "pair" /\ hostJob.arg = "first") =>
       /\ Fields(hostJob.out.machine) = Fields(hostJob.out.was)
       /\ inputBuffer = hostJob.before.inputBuffer

\* The part of C32 about the fields of class CPU alone
C32_FieldsApart ==
  /\ (hostJob.kind = "pair" /\ hostJob.arg = "second") => Fields(Cpu) = Fields(hostJob.before)
  /\ (hostJob.kind = "pair" /\ hostJob.arg = "first") =>
       Fields(hostJob.out.machine) = Fields(hostJob.out.was)

(***************************************************************************)
(* Batch run mode: oper8 echo.asm.  runAsync runs the machine in chunks of *)
(* run(1000) and awaits setImmediate after each full chunk; the stdin      *)
(* 'data' handler, which pushes the characters of a key string on          *)
(* inputBuffer, can only run while runAsync awaits.  hostJob.arg is the    *)
(* sequence of bytes pushed so far and hostJob.out the sequence of bytes   *)
(* INPUT instructions stored in their register when a byte was waiting.    *)
(***************************************************************************)
\* The echo program
EchoLines ==
  <<Org(<<<<"0", "x", "2", "0", "0">>>>),
    Label(<<"m", "a", "i", "n">>),
    Line("LDI0", <<<<">", "p", "r", "o", "m", "p", "t">>>>),
    Line("LDI1", <<<<"<", "p", "r", "o", "m", "p", "t">>>>),
    Label(<<"p", "r", "i", "n", "t", "_", "p", "r", "o", "m", "p", "t">>),
    Line("LOAD", <<<<"R", "2">>, <<"R", "0">>>>),
    Line("TEST", <<<<"R", "2">>, <<"R", "2">>>>),
    Line("JZ", <<<<"e", "c", "h", "o", "_", "l", "o", "o", "p">>>>),
    Line("PRINT", <<<<"R", "2">>>>),
    Line("INC", <<<<"R", "1">>>>),
    Line("JNC", <<<<"p", "r", "i", "n", "t", "_", "p", "r", "o", "m", "p", "t">>>>),
    Line("INC", <<<<"R", "0">>>>),
    Line("JMP", <<<<"p", "r", "i", "n", "t", "_", "p", "r", "o", "m", "p", "t">>>>),
    Label(<<"e", "c", "h", "o", "_", "l", "o", "o", "p">>),
    Line("INPUT", <<<<"R", "0">>>>),
    Line("JZ", <<<<"e", "c", "h", "o", "_", "l", "o", "o", "p">>>>),
    Line("LDI1", <<<<"'", "\\", "n", "'">>>>),
    Line("CMP", <<<<"R", "0">>, <<"R", "1">>>>),
    Line("JZ", <<<<"d", "o", "n", "e">>>>),
    Line("LDI1", <<<<"'", "\\", "r", "'">>>>),
    Line("CMP", <<<<"R", "0">>, <<"R", "1">>>>),
    Line("JZ", <<<<"d", "o", "n", "e">>>>),
    Line("PRINT", <<<<"R", "0">>>>),
    Line("JMP", <<<<"e", "c", "h", "o", "_", "l", "o", "o", "p">>>>),
    Label(<<"d", "o", "n", "e">>),
    Line("PRINT", <<<<"R", "1">>>>),
    Line("HLT", <<>>),
    Label(<<"p", "r", "o", "m", "p", "t">>),
    Data(<<<<"'", "T", "y", "p", "e", " ", "s", "o", "m", "e", "t", "h", "i", "n", "g", ":", " ", "'">>, <<"0">>>>)>>

ChunkSteps == 1000

\* The bytes of the key strings: NUL, line feed, a letter
KeyBytes == {0, 10, 65}

\* Key strings of stdin 'data' events: Ctrl+C alone, one character, two
KeyStrings ==
  {<<3>>} \cup {<<a>> : a \in KeyBytes} \cup {<<a, b>> : a \in KeyBytes, b \in KeyBytes}

\* The total number of characters pushed on inputBuffer
MaxKeys == 3

\* run(maxSteps) in progress, with the bytes INPUT instructions have received
Running(s, delivered, steps, going) ==
  [cpu |-> s, delivered |-> delivered, steps |-> steps, going |-> going]

\* One iteration of  while (steps < maxSteps && this.step()) steps++ ; an INPUT
\* that finds a byte waiting hands what it stored in R[rx] to the log
runIteration(b, maxSteps) ==
  IF ~b.going \/ ~runTest(b.steps, maxSteps) THEN [b EXCEPT !.going = FALSE]
  ELSE LET t == step(b.cpu)
           rx == MemRead(b.cpu.memory, (b.cpu.pc + 1) % 65536) \div 16
           took == /\ ~b.cpu.halted
                   /\ t.faultLog = b.cpu.faultLog
                   /\ MemRead(b.cpu.memory, b.cpu.pc) = 113
                   /\ b.cpu.hasIO
                   /\ b.cpu.inputBuffer # <<>>
       IN Running(t, IF took THEN Append(b.delivered, t.registers[rx]) ELSE b.delivered,
                  runCount(b.steps, ~t.halted), ~t.halted)

\* n iterations of the loop, taken half by half; b is the loop's state after
\* the iterations before, worked out once
RECURSIVE runIterations(_, _, _)
runIterations(before, n, maxSteps) ==
  CHOOSE after \in
    { IF n = 0 \/ ~b.going THEN b
      ELSE IF n = 1 THEN runIteration(b, maxSteps)
      ELSE runIterations(runIterations(b, n \div 2, maxSteps), n - n \div 2, maxSteps)
      : b \in {before} } : TRUE

\* oper8 echo.asm: assembled, loaded at its start address, runAsync entered
BatchCmd ==
  /\ phase = "fresh"
  /\ Done("batch", "part_002", <<>>, <<>>,
          loadAssembled(createCPU, assembleFile(EchoLines, 512)), hostJob.bangs)
  /\ phase' = "chunk"
  /\ UNCHANGED <<hist, runFrame>>

\* const steps = cpu.run(1000); if (steps < 1000) break; await setImmediate
BatchChunk ==
  /\ phase = "chunk"
  /\ LET b == runIterations(Running(Cpu, hostJob.out, 0, TRUE), ChunkSteps + 1, ChunkSteps)
     IN /\ Becomes(b.cpu)
        /\ hostJob' = [hostJob EXCEPT !.out = b.delivered]
        /\ phase' = IF b.steps < ChunkSteps THEN "complete" ELSE "yield"
  /\ UNCHANGED <<hist, runFrame>>

\* process.stdin.on('data'): Ctrl+C exits the process, any other key string is
\* pushed character by character
Keystroke ==
  /\ phase = "yield"
  /\ \E key \in KeyStrings :
       IF key = <<3>>
       THEN /\ phase' = "exited"
            /\ UNCHANGED <<inputBuffer, hostJob>>
       ELSE /\ Len(hostJob.arg) + Len(key) <= MaxKeys
            /\ inputBuffer' = inputBuffer \o key
            /\ hostJob' = [hostJob EXCEPT !.arg = @ \o key]
            /\ UNCHANGED phase
  /\ UNCHANGED <<registers, memory, pc, flagZ, flagC, flagN, halted,
                 hasIO, outLog, faultLog, hist, runFrame>>

\* The setImmediate callback resolves: while (!cpu.halted)
BatchResume ==
  /\ phase = "yield"
  /\ phase' = IF halted THEN "complete" ELSE "chunk"
  /\ UNCHANGED <<registers, memory, pc, flagZ, flagC, flagN, halted,
                 hasIO, outLog, inputBuffer, faultLog, hist, runFrame, hostJob>>

NextBatch == BatchCmd \/ BatchChunk \/ Keystroke \/ BatchResume

SpecBatch == Init /\ [][NextBatch]_vars

\* A step that leaves phase "chunk": only BatchChunk makes one, and it can
\* make one in every state of that phase
ChunkTaken == phase = "chunk" /\ phase' \in {"yield", "complete"}

\* The chunk is a synchronous loop and the event loop runs a pending
\* setImmediate callback
SpecBatchFair == SpecBatch /\ WF_phase(ChunkTaken) /\ WF_vars(BatchResume)

\* The bytes pushed so far are the bytes delivered followed by the bytes waiting
BatchInOrder ==
  hostJob.kind = "batch" => hostJob.arg = hostJob.out \o inputBuffer

====
